---------------------------- MODULE Spec2Model ----------------------------
(***************************************************************************)
(* Pick'em pool backend (src/server.js): team-name normalisation, score    *)
(* matching, spread-adjusted winner declaration and standings.             *)
(*                                                                         *)
(* The string functions of the code (regex replace, trim, toLowerCase) work *)
(* on tuples of one-character strings and are computed character by        *)
(* character.  A missing (undefined) string is Undefined.                  *)
(* Point spreads are kept in half points (spread 0.5 is 1, -3 is -6), so   *)
(* score + spread is compared as 2*score + halves, which is exact for the  *)
(* half-point lines the pool uses.                                         *)
(***************************************************************************)
EXTENDS Integers, Sequences, FiniteSets, TLC

(***************************************************************************)
(* Characters                                                              *)
(***************************************************************************)
UpperSeq ==
  <<"A","B","C","D","E","F","G","H","I","J","K","L","M",
    "N","O","P","Q","R","S","T","U","V","W","X","Y","Z">>

LowerSeq ==
  <<"a","b","c","d","e","f","g","h","i","j","k","l","m",
    "n","o","p","q","r","s","t","u","v","w","x","y","z">>

DigitSet == {"0","1","2","3","4","5","6","7","8","9"}

UpperSet == {UpperSeq[i] : i \in 1..26}

LowerSet == {LowerSeq[i] : i \in 1..26}

\* undefined / a key that is absent from a JSON object
Undefined == <<"undefined">>

AlnumSet == UpperSet \cup LowerSet \cup DigitSet

\* the character class [a-zA-Z0-9] of the regular expressions
IsAlnum(c) == c \in AlnumSet

\* the lower-case letter of each upper-case letter
LowerOf == [c \in UpperSet |-> LowerSeq[CHOOSE i \in 1..26 : UpperSeq[i] = c]]

\* String.prototype.toLowerCase on one character
LowerChar(c) == IF c \in UpperSet THEN LowerOf[c] ELSE c

toLowerCase(s) == [i \in 1..Len(s) |-> LowerChar(s[i])]

\* whitespace as String.prototype.trim sees it
IsSpace(c) == c = " "

RECURSIVE trimStart(_)
trimStart(s) ==
  IF s # <<>> /\ IsSpace(Head(s)) THEN trimStart(Tail(s)) ELSE s

RECURSIVE trimEnd(_)
trimEnd(s) ==
  IF s # <<>> /\ IsSpace(s[Len(s)]) THEN trimEnd(SubSeq(s, 1, Len(s) - 1)) ELSE s

trim(s) == trimEnd(trimStart(s))

(***************************************************************************)
(* normalizeName                                                           *)
(***************************************************************************)
\* .replace(/[^a-zA-Z0-9]/g, ''): every non-matching character is dropped,
\* scanning left to right
RECURSIVE StripNonAlnum(_)
StripNonAlnum(s) ==
  IF s = <<>> THEN <<>>
  ELSE IF IsAlnum(Head(s)) THEN <<Head(s)>> \o StripNonAlnum(Tail(s))
       ELSE StripNonAlnum(Tail(s))

StateWord == <<"s","t","a","t","e">>

StWord == <<"s","t">>

\* /state$/i matches: the last five characters are "state" in any case
EndsWithState(s) ==
  /\ Len(s) >= Len(StateWord)
  /\ toLowerCase(SubSeq(s, Len(s) - Len(StateWord) + 1, Len(s))) = StateWord

\* the same test without the i flag
EndsWithStateCaseSensitive(s) ==
  /\ Len(s) >= Len(StateWord)
  /\ SubSeq(s, Len(s) - Len(StateWord) + 1, Len(s)) = StateWord

\* .replace(/state$/i, 'st')
ReplaceStateSuffix(s) ==
  IF EndsWithState(s) THEN SubSeq(s, 1, Len(s) - Len(StateWord)) \o StWord ELSE s

\* (str || '').toString(): undefined and the empty string both give ''
OrEmpty(str) == IF str = Undefined THEN <<>> ELSE str

\* mutant: the suffix is replaced before the punctuation is stripped
normalizeName_SuffixFirst(str) ==
  toLowerCase(StripNonAlnum(ReplaceStateSuffix(OrEmpty(str))))

\* mutant: the suffix regex lost its i flag
normalizeName_NoIFlag(str) ==
  LET s == StripNonAlnum(OrEmpty(str))
  IN  toLowerCase(IF EndsWithStateCaseSensitive(s)
                  THEN SubSeq(s, 1, Len(s) - Len(StateWord)) \o StWord
                  ELSE s)

\* server.js normalizeName
normalizeName(str) ==
  toLowerCase(ReplaceStateSuffix(StripNonAlnum(OrEmpty(str))))

\* verifyScoreMatches.js normalize: str?.replace(...)... gives undefined for
\* a missing name
normalize(str) ==
  IF str = Undefined THEN Undefined
  ELSE toLowerCase(ReplaceStateSuffix(StripNonAlnum(str)))

(***************************************************************************)
(* Team names, records and files                                           *)
(***************************************************************************)
\* Team, pick and player names are held in the files as whole strings; Chars
\* spells each of them out for the string functions above.
OhioState == "Ohio State"

OhioSt == "Ohio St."

Michigan == "Michigan"

Iowa == "Iowa"

\* a short name that team_name_map.json may translate
OSU == "OSU"

\* the sentinel winner of a tied game
PUSH == "PUSH"

Ann == "Ann"

Bob == "Bob"

\* names as they are typed into a form, with blanks around them
MichiganPadded == " Michigan "

BobPadded == "Bob "

\* Ann's name typed in capitals
AnnUpper == "ANN"

\* a name that is absent from its record
Missing == "(undefined)"

Chars ==
  [n \in {OhioState, OhioSt, Michigan, Iowa, OSU, PUSH, Ann, Bob, MichiganPadded,
          BobPadded, AnnUpper, "", Missing} |->
     CASE n = OhioState -> <<"O","h","i","o"," ","S","t","a","t","e">>
       [] n = OhioSt    -> <<"O","h","i","o"," ","S","t",".">>
       [] n = Michigan  -> <<"M","i","c","h","i","g","a","n">>
       [] n = Iowa      -> <<"I","o","w","a">>
       [] n = OSU       -> <<"O","S","U">>
       [] n = PUSH      -> <<"P","U","S","H">>
       [] n = Ann       -> <<"A","n","n">>
       [] n = Bob       -> <<"B","o","b">>
       [] n = MichiganPadded -> <<" ","M","i","c","h","i","g","a","n"," ">>
       [] n = BobPadded -> <<"B","o","b"," ">>
       [] n = AnnUpper  -> <<"A","N","N">>
       [] n = ""        -> <<>>
       [] n = Missing   -> Undefined]

KnownNames == DOMAIN Chars

\* the name that is spelled chars
NameOf(chars) == CHOOSE n \in KnownNames : Chars[n] = chars

\* normalizeName of each name, evaluated once
NormalizedKnown == [n \in KnownNames |-> normalizeName(Chars[n])]

\* a call of normalizeName on a name
Normalized(name) == NormalizedKnown[name]

\* String(name).trim() of each name, evaluated once
TrimmedKnown == [n \in KnownNames |-> NameOf(trim(OrEmpty(Chars[n])))]

\* (name || '').trim()
TrimName(name) == TrimmedKnown[name]

\* (name || '').trim().toLowerCase() of each name, evaluated once
FoldedKnown == [n \in KnownNames |-> toLowerCase(trim(OrEmpty(Chars[n])))]

\* (name || '').trim().toLowerCase()
Folded(name) == FoldedKnown[name]

\* the weeks whose files the model holds
Weeks == {1, 2}

\* a player may submit this many picks
MaxPicksAllowed == 10

\* a file that does not exist
NoFile == [exists |-> FALSE, body |-> <<>>]

File(body) == [exists |-> TRUE, body |-> body]

\* no week has the file
NoFiles == [w \in Weeks |-> NoFile]

Range(seq) == {seq[i] : i \in 1..Len(seq)}

\* the object has the key: reading a key it lacks gives undefined
Has(r, key) == key \in DOMAIN r

\* { key: value } as JSON.stringify writes it: a key whose value is undefined
\* (from being the key read of r) is left out
Property(key, r, from) == IF Has(r, from) THEN (key :> r[from]) ELSE <<>>

\* Array.prototype.findIndex / find over the per-element test results,
\* 1-based; 0 stands for "not found"
FirstTrue(flags) ==
  IF \E i \in 1..Len(flags) : flags[i]
  THEN CHOOSE i \in 1..Len(flags) : flags[i] /\ \A j \in 1..(i - 1) : ~flags[j]
  ELSE 0

\* the last element that passes, for the mutants below
LastTrue(flags) ==
  IF \E i \in 1..Len(flags) : flags[i]
  THEN CHOOSE i \in 1..Len(flags) : flags[i] /\ \A j \in (i + 1)..Len(flags) : ~flags[j]
  ELSE 0

VARIABLES
  teamNameMap,  \* team_name_map.json: short name -> mascot name
  upload,       \* the file multer stored in uploads/: [week, rows]
  games,        \* games_week_N.json
  scores,       \* scores_week_N.json
  detail,       \* winners_detail_week_N.json
  declared,     \* declaredwinners_week_N.json
  picks,        \* picks_week_N.json
  winners,      \* winners_week_N.json
  totals,       \* totals.json: player -> running total
  currentWeek,  \* current_week.json
  roster,       \* roster.json
  spreadUpload, \* the spread file multer stored in uploads/: [week, rows]
  backup,       \* the files the last request wrote into backups/
  submission,   \* the body of the last submit-picks request
  res,          \* the response to the last request
  log,          \* the console lines of the last request
  runs,         \* completed calculateWinnersFromList runs since totals was empty
  nIn,          \* a name handed to the normalizers
  nOut, nOut2,  \* normalizeName of nIn, and of that result
  vOut, vOut2,  \* verifyScoreMatches.js normalize of nIn, and of that result
  npc,          \* how far the normalizer calls have got
  settings,     \* app_settings.json: the picksVisibilityMode it holds
  adminToken,   \* process.env.ADMIN_TOKEN
  chat,         \* chat.json
  posting,      \* the POST /api/chat requests in flight: [pc, message, read]
  served,       \* the file the last GET request was answered with
  kickoffs,     \* the date fields of a games file handed to computeCutoffForWeek
  cutoff        \* what computeCutoffForWeek returned for them

fileVars == <<teamNameMap, upload, games, scores, detail, declared, picks, winners, totals>>

reqVars == <<res, log, runs>>

\* the files and inputs around the week files
adminVars == <<currentWeek, roster, spreadUpload>>

normVars == <<nIn, nOut, nOut2, vOut, vOut2, npc>>

\* the settings, the chat and the cutoff computation
siteVars == <<settings, adminToken, chat, posting, served, kickoffs, cutoff>>

vars == <<fileVars, adminVars, backup, submission, reqVars, normVars, siteVars>>

(***************************************************************************)
(* Team name map and score verification (JSON scores upload)               *)
(***************************************************************************)
\* mapToMascot: map[name] || map[String(name).trim()] || name
mapToMascot(name, map) ==
  IF name = Missing \/ name = "" THEN ""
  ELSE IF name \in DOMAIN map /\ map[name] # "" THEN map[name]
  ELSE IF TrimName(name) \in DOMAIN map /\ map[TrimName(name)] # ""
       THEN map[TrimName(name)]
  ELSE name

sameTeam(a, b) == Normalized(a) = Normalized(b)

\* the findIndex predicate of verifyNormalizeScores: the score record names
\* the game's two teams, in either order, after the map translation
VerifyMatches(s, g, map) ==
  LET s1 == mapToMascot(s.team1, map)
      s2 == mapToMascot(s.team2, map)
  IN  \/ sameTeam(s1, g.team1) /\ sameTeam(s2, g.team2)
      \/ sameTeam(s1, g.team2) /\ sameTeam(s2, g.team1)

\* mutant: the scores are never re-oriented
VerifyNeedsSwap_Never(s, g, map) == FALSE

\* needsSwap of verifyNormalizeScores
VerifyNeedsSwap(s, g, map) ==
  /\ sameTeam(mapToMascot(s.team1, map), g.team2)
  /\ sameTeam(mapToMascot(s.team2, map), g.team1)

\* the record verifyNormalizeScores pushes for game g and score record s
VerifyOrdered(s, g, needsSwap) ==
  IF Has(s, "score1") /\ Has(s, "score2")
  THEN [team1  |-> g.team1,
        score1 |-> IF needsSwap THEN s.score2 ELSE s.score1,
        team2  |-> g.team2,
        score2 |-> IF needsSwap THEN s.score1 ELSE s.score2]
  ELSE [team1 |-> g.team1, team2 |-> g.team2]
         @@ Property("score1", s, IF needsSwap THEN "score2" ELSE "score1")
         @@ Property("score2", s, IF needsSwap THEN "score1" ELSE "score2")

\* incomingScores.findIndex(...) for game g
VerifyIndex(incomingScores, g, map) ==
  FirstTrue([i \in 1..Len(incomingScores) |-> VerifyMatches(incomingScores[i], g, map)])

EmptyReport == [matched |-> 0, swapped |-> 0, dropped |-> <<>>, unmatchedGames |-> <<>>]

\* the loop body once the score record s = incomingScores[idx] was found
VerifyMatched(acc, idx, s, g, needsSwap) ==
  [acc EXCEPT !.used = @ \cup {idx},
              !.swapped = IF needsSwap THEN @ + 1 ELSE @,
              !.ordered = Append(@, VerifyOrdered(s, g, needsSwap)),
              !.matched = @ + 1]

\* mutant: a game without a score record discards the records ordered so far
VerifyStep_MissDiscards(acc, incomingScores, map, g, idx) ==
  IF idx = 0
  THEN [acc EXCEPT !.unmatchedGames = Append(@, <<g.team1, g.team2>>),
                   !.ordered = <<>>]
  ELSE VerifyMatched(acc, idx, incomingScores[idx], g,
                     VerifyNeedsSwap(incomingScores[idx], g, map))

\* the loop body of verifyNormalizeScores for game g, idx being the result of
\* findIndex (0: none)
VerifyStep(acc, incomingScores, map, g, idx) ==
  IF idx = 0
  THEN [acc EXCEPT !.unmatchedGames = Append(@, <<g.team1, g.team2>>)]
  ELSE VerifyMatched(acc, idx, incomingScores[idx], g,
                     VerifyNeedsSwap(incomingScores[idx], g, map))

\* the for loop of verifyNormalizeScores from game i on; acc holds ordered,
\* used and the report counters
RECURSIVE VerifyLoop(_, _, _, _, _)
VerifyLoop(gamesList, incomingScores, map, i, acc) ==
  IF i > Len(gamesList) THEN acc
  ELSE VerifyLoop(gamesList, incomingScores, map, i + 1,
         VerifyStep(acc, incomingScores, map, gamesList[i],
                    VerifyIndex(incomingScores, gamesList[i], map)))

\* mutant: every incoming score record is reported as dropped
DroppedScores_All(incomingScores, used) ==
  [j \in 1..Len(incomingScores) |-> <<incomingScores[j].team1, incomingScores[j].team2>>]

\* "Anything not matched -> dropped": the names of the unused score records
DroppedScores(incomingScores, used) ==
  LET unusedIdx == SelectSeq([i \in 1..Len(incomingScores) |-> i],
                             LAMBDA i : i \notin used)
  IN  [j \in 1..Len(unusedIdx) |->
         <<incomingScores[unusedIdx[j]].team1, incomingScores[unusedIdx[j]].team2>>]

\* what verifyNormalizeScores returns from the loop's result
VerifyResult(incomingScores, done) ==
  [ordered |-> done.ordered,
   report  |-> [matched        |-> done.matched,
                swapped        |-> done.swapped,
                dropped        |-> DroppedScores(incomingScores, done.used),
                unmatchedGames |-> done.unmatchedGames]]

\* verifyNormalizeScores past its missing-file check
verifyNormalizeScores(gamesList, incomingScores, map) ==
  VerifyResult(incomingScores,
    VerifyLoop(gamesList, incomingScores, map, 1,
      [ordered |-> <<>>, used |-> {}, matched |-> 0, swapped |-> 0,
       unmatchedGames |-> <<>>]))

(***************************************************************************)
(* Excel scores upload: row parsing and ordering                           *)
(***************************************************************************)
\* row[1]?.toString().trim()
TrimCell(v) == IF v = Missing THEN Missing ELSE TrimName(v)

\* row.length < 5: the sheet row ends before its fifth cell, the second score
ShortRow(row) == ~Has(row, "score2")

\* the rawScores record of a sheet row of five cells
RawScore(row) ==
  [team1  |-> TrimCell(row.team1),
   score1 |-> row.score1,
   team2  |-> TrimCell(row.team2),
   score2 |-> row.score2]

\* the rawScores the Excel handler builds from the sheet rows, short rows
\* skipped
ParseScoreRows(rows) ==
  IF \A i \in 1..Len(rows) : ~ShortRow(rows[i])
  THEN [i \in 1..Len(rows) |-> RawScore(rows[i])]
  ELSE LET kept == SelectSeq(rows, LAMBDA row : ~ShortRow(row))
       IN  [i \in 1..Len(kept) |-> RawScore(kept[i])]

\* the find predicate shared by the Excel handler and calculateTotalWinners,
\* on the normalized names
PairMatchesNormalized(s1, s2, g1, g2) ==
  (s1 = g1 /\ s2 = g2) \/ (s1 = g2 /\ s2 = g1)

PairMatches(s, game) ==
  PairMatchesNormalized(Normalized(s.team1), Normalized(s.team2),
                        Normalized(game.team1), Normalized(game.team2))

\* mutant: the last matching score record is used
PairIndex_Last(scoreList, game) ==
  LastTrue([i \in 1..Len(scoreList) |-> PairMatches(scoreList[i], game)])

\* scoreList.find(...) for a game, as an index
PairIndex(scoreList, game) ==
  FirstTrue([i \in 1..Len(scoreList) |-> PairMatches(scoreList[i], game)])

\* needsSwap of the Excel handler
ExcelNeedsSwap(match, game) == Normalized(match.team1) # Normalized(game.team1)

\* the record the Excel handler returns for a matched game: the labels are
\* the score record's own, re-ordered with the scores
ExcelOrdered(match, needsSwap) ==
  [team1  |-> IF needsSwap THEN match.team2 ELSE match.team1,
   score1 |-> IF needsSwap THEN match.score2 ELSE match.score1,
   team2  |-> IF needsSwap THEN match.team1 ELSE match.team2,
   score2 |-> IF needsSwap THEN match.score1 ELSE match.score2]

\* the map callback of the Excel handler for one game, idx being the result
\* of find (0: none), with its console.warn line
OrderStep(acc, rawScores, g, idx) ==
  IF idx = 0
  THEN [acc EXCEPT !.log = Append(@, [line |-> "Score not found", team1 |-> g.team1,
                                      team2 |-> g.team2])]
  ELSE [acc EXCEPT !.ordered =
          Append(@, ExcelOrdered(rawScores[idx], ExcelNeedsSwap(rawScores[idx], g)))]

\* spreadGames.map(...).filter(Boolean) from game i on
RECURSIVE OrderLoop(_, _, _, _)
OrderLoop(spreadGames, rawScores, i, acc) ==
  IF i > Len(spreadGames) THEN acc
  ELSE OrderLoop(spreadGames, rawScores, i + 1,
         OrderStep(acc, rawScores, spreadGames[i], PairIndex(rawScores, spreadGames[i])))

\* orderedScores of the Excel handler
OrderScores(spreadGames, rawScores) ==
  OrderLoop(spreadGames, rawScores, 1, [ordered |-> <<>>, log |-> <<>>])

(***************************************************************************)
(* Winners calculation                                                     *)
(***************************************************************************)
\* Number(undefined) is NaN, a sum with NaN is NaN, and both comparisons with
\* NaN are false: the numbers calculateTotalWinners compares are numbers only
\* when the three fields are there
NumbersPresent(match, game) ==
  Has(match, "score1") /\ Has(match, "score2") /\ Has(game, "spread1")

\* mutant: spread2 is added to team2's score
DeclareWinner_Spread2(match, game) ==
  LET adjusted1 == 2 * match.score1 + game.spread1
      adjusted2 == 2 * match.score2 + game.spread2
  IN  IF adjusted1 > adjusted2 THEN game.team1
      ELSE IF adjusted1 < adjusted2 THEN game.team2
      ELSE PUSH

\* adjusted1 = score1 + spread1, raw2 = score2 (both doubled: spreads are in
\* half points); the winner or the sentinel
DeclareWinner(match, game) ==
  LET adjusted1 == 2 * match.score1 + game.spread1
      raw2      == 2 * match.score2
  IN  IF ~NumbersPresent(match, game) THEN PUSH
      ELSE IF adjusted1 > raw2 THEN game.team1
      ELSE IF adjusted1 < raw2 THEN game.team2
      ELSE PUSH

\* the detail record of a matched game
DetailRecord(match, game, winner) ==
  IF NumbersPresent(match, game)
  THEN [team1 |-> game.team1, spread1 |-> game.spread1, score1 |-> match.score1,
        team2 |-> game.team2, spread2 |-> game.spread2, score2 |-> match.score2,
        winner |-> winner]
  ELSE [team1 |-> game.team1, team2 |-> game.team2, spread2 |-> game.spread2,
        winner |-> winner]
         @@ Property("spread1", game, "spread1")
         @@ Property("score1", match, "score1")
         @@ Property("score2", match, "score2")

\* mutant: a push is declared under the name of team1
DeclaredAfter_PushIncluded(declaredWinners, winner, game) ==
  Append(declaredWinners, IF winner = PUSH THEN game.team1 ELSE winner)

\* if (winner !== 'PUSH') declaredWinners.push(winner)
DeclaredAfter(declaredWinners, winner, game) ==
  IF winner # PUSH THEN Append(declaredWinners, winner) ELSE declaredWinners

\* the loop body of calculateTotalWinners once the winner is known
WinnersPush(acc, match, game, winner) ==
  [acc EXCEPT !.detail = Append(@, DetailRecord(match, game, winner)),
              !.declaredWinners = DeclaredAfter(@, winner, game)]

\* the loop body of calculateTotalWinners for one game, idx being the result
\* of find (0: none)
WinnersStep(acc, scoresList, game, idx) ==
  IF idx = 0
  THEN [acc EXCEPT !.log = Append(@, [line |-> "Could not match score",
                                      team1 |-> game.team1, team2 |-> game.team2])]
  ELSE WinnersPush(acc, scoresList[idx], game, DeclareWinner(scoresList[idx], game))

\* the for loop of calculateTotalWinners from game i on
RECURSIVE WinnersLoop(_, _, _, _)
WinnersLoop(gamesList, scoresList, i, acc) ==
  IF i > Len(gamesList) THEN acc
  ELSE WinnersLoop(gamesList, scoresList, i + 1,
         WinnersStep(acc, scoresList, gamesList[i], PairIndex(scoresList, gamesList[i])))

\* calculateTotalWinners past its missing-file check
calculateTotalWinners(gamesList, scoresList) ==
  WinnersLoop(gamesList, scoresList, 1,
              [detail |-> <<>>, declaredWinners |-> <<>>, log |-> <<>>])

\* (player.picks || []).map(p => (p.pick || '').trim())
TrimmedPicks(player) ==
  IF Has(player, "picks")
  THEN [i \in 1..Len(player.picks) |-> TrimName(player.picks[i].pick)]
  ELSE <<>>

\* mutant: a pick counts only when it names the winner listed at its gameIndex
CorrectPicks_ByIndex(player, winnersList) ==
  LET ok == SelectSeq([i \in 1..Len(player.picks) |-> i],
              LAMBDA i : /\ player.picks[i].gameIndex + 1 \in 1..Len(winnersList)
                         /\ winnersList[player.picks[i].gameIndex + 1]
                              = TrimName(player.picks[i].pick))
  IN  [j \in 1..Len(ok) |-> TrimName(player.picks[ok[j]].pick)]

\* mutant: a pick that names no team counts as correct
CorrectPicks_EmptyCounts(player, winnersList) ==
  SelectSeq(TrimmedPicks(player), LAMBDA pick : pick \in Range(winnersList) \cup {""})

\* .filter(pick => winnersList.includes(pick))
CorrectPicks(player, winnersList) ==
  SelectSeq(TrimmedPicks(player), LAMBDA pick : pick \in Range(winnersList))

\* mutant: the week total replaces the running total
Accumulate_Overwrite(existingTotals, name, total) ==
  IF name \in DOMAIN existingTotals
  THEN [existingTotals EXCEPT ![name] = total]
  ELSE existingTotals @@ (name :> total)

\* existingTotals[name] = (existingTotals[name] || 0) + r.total
Accumulate(existingTotals, name, total) ==
  IF name \in DOMAIN existingTotals
  THEN [existingTotals EXCEPT ![name] = @ + total]
  ELSE existingTotals @@ (name :> total)

\* for (const r of results) ... from result i on
RECURSIVE UpdateTotals(_, _, _)
UpdateTotals(results, i, existingTotals) ==
  IF i > Len(results) THEN existingTotals
  ELSE UpdateTotals(results, i + 1,
         Accumulate(existingTotals, TrimName(results[i].player), results[i].total))

\* { player: player.player, correct, total: correct.length }
PlayerResult(player, correct) ==
  [player |-> player.player, correct |-> correct, total |-> Len(correct)]

\* picksData.map(...)
PlayerResults(picksData, winnersList) ==
  [i \in 1..Len(picksData) |->
     PlayerResult(picksData[i], CorrectPicks(picksData[i], winnersList))]

\* the totals update of calculateWinnersFromList
WithTotals(results, existingTotals) ==
  [results |-> results, totals |-> UpdateTotals(results, 1, existingTotals)]

\* calculateWinnersFromList past its missing-file check
calculateWinnersFromList(picksData, winnersList, existingTotals) ==
  WithTotals(PlayerResults(picksData, winnersList), existingTotals)

(***************************************************************************)
(* Bounds and input sets                                                   *)
(***************************************************************************)
\* longest name handed to the normalizers
MaxLen == 6

\* most games in a week's spread
MaxGames == 2

\* most rows in an uploaded scores file
MaxScores == 3

\* most picks in one stored entry of the picks files drawn at the start
MaxPicks == 2

\* most calculation runs that add to the totals
MaxRuns == 2

SeqsUpTo(S, n) == UNION {[1..k -> S] : k \in 0..n}

\* the letters of "state", one of them also in upper case, and a punctuation
\* mark
StateAlphabet == {"s", "t", "a", "e", "E", "."}

\* digits, both letter cases, a blank and a hyphen
MixedAlphabet == {"1", "9", "A", "z", "Z", " ", "-"}

\* team names as normalizeName may receive them, a missing name included
NormInputs ==
  SeqsUpTo(StateAlphabet, MaxLen) \cup SeqsUpTo(MixedAlphabet, MaxLen - 2) \cup {Undefined}

GameRecord(team1, spread1, team2, spread2) ==
  [team1 |-> team1, spread1 |-> spread1, team2 |-> team2, spread2 |-> spread2]

\* the games a spread may list (spreads in half points): Ohio State -3 / +3
\* against Michigan; Michigan +0.5 against Iowa +0.5 (spread2 is not
\* -spread1); and a line whose two names are spellings of one name
GameRecords ==
  {GameRecord(OhioState, -6, Michigan, 6),
   GameRecord(Michigan, 1, Iowa, 1),
   GameRecord(OhioState, -6, OhioSt, 6)}

GameLists == SeqsUpTo(GameRecords, MaxGames)

ScoreRow(team1, score1, team2, score2) ==
  [team1 |-> team1, score1 |-> score1, team2 |-> team2, score2 |-> score2]

\* the rows a scores file may hold: other spellings and short names than the
\* spread's, teams in the opposite order to the spread's, either side ahead
ScoreRows ==
  {ScoreRow(OhioSt, 13, Michigan, 10),
   ScoreRow(Michigan, 13, OhioSt, 10),
   ScoreRow(Iowa, 10, Michigan, 13),
   ScoreRow(OSU, 20, Michigan, 10),
   ScoreRow(OhioSt, 13, OhioState, 10)}

\* the lists of at most n different elements of S
DistinctSeqsUpTo(S, n) ==
  {q \in SeqsUpTo(S, n) : \A i, j \in 1..Len(q) : i # j => q[i] # q[j]}

\* a scores file lists a result once
ScoreLists == DistinctSeqsUpTo(ScoreRows, MaxScores)

\* team_name_map.json is absent (or empty), or maps the short name OSU
TeamNameMaps == {<<>>, (OSU :> OhioState)}

\* the week of the standings runs: Ohio State -3 against Michigan, Michigan
\* +0.5 against Iowa
StandGames ==
  <<GameRecord(OhioState, -6, Michigan, 6), GameRecord(Michigan, 1, Iowa, 1)>>

\* its results: a push, Ohio State covering, Michigan covering
StandScoreLists ==
  DistinctSeqsUpTo({ScoreRow(OhioSt, 13, Michigan, 10),
                    ScoreRow(Michigan, 10, OhioSt, 20),
                    ScoreRow(Iowa, 10, Michigan, 13)}, MaxScores)

PickRecord(gameIndex, pick) == [gameIndex |-> gameIndex, pick |-> pick]

\* what a submit-picks route stored for a player; the earlier route stores
\* the names as they were typed
PickLists ==
  SeqsUpTo({PickRecord(0, OhioState), PickRecord(0, Michigan),
            PickRecord(1, MichiganPadded), PickRecord(1, Iowa)}, MaxPicks)

PickEntry(player, playerPicks) == [player |-> player, picks |-> playerPicks]

\* picks_week_N.json: one entry per player
PicksFiles ==
  {<<PickEntry(Ann, p)>> : p \in PickLists}
    \cup {<<PickEntry(Ann, p),
            PickEntry(BobPadded, <<PickRecord(0, OhioState), PickRecord(1, Michigan)>>)>> :
          p \in PickLists}

(***************************************************************************)
(* Requests                                                                *)
(***************************************************************************)
NoResponse == [route |-> "none", week |-> 0, status |-> 0, report |-> EmptyReport]

Response(route, week, status, report) ==
  [route |-> route, week |-> week, status |-> status, report |-> report]

LogLine(text) == [line |-> text, team1 |-> "", team2 |-> ""]

\* mutant: the detail is appended to the detail of the earlier run
WinnersFiles_Appends(week, ctwRan, ctw) ==
  IF ctwRan
  THEN [detail |-> File(detail[week].body \o ctw.detail),
        declared |-> File(ctw.declaredWinners), log |-> ctw.log]
  ELSE [detail |-> detail[week], declared |-> declared[week],
        log |-> <<LogLine("Missing scores or games file")>>]

\* the files calculateTotalWinners(week) leaves, scores_week_N.json holding
\* scoresFile: it returns early when the scores or the games file is missing
WinnersFiles(week, ctwRan, ctw) ==
  IF ctwRan
  THEN [detail |-> File(ctw.detail), declared |-> File(ctw.declaredWinners),
        log |-> ctw.log]
  ELSE [detail |-> detail[week], declared |-> declared[week],
        log |-> <<LogLine("Missing scores or games file")>>]

TotalWinnersCalculated(week, scoresFile) ==
  WinnersFiles(week, scoresFile.exists /\ games[week].exists,
               calculateTotalWinners(games[week].body, scoresFile.body))

\* the files calculateWinnersFromList(week) leaves after that: it returns
\* early when the picks or the declared-winners file is missing
ResultFiles(week, a, cwlRan, cwl) ==
  [detail   |-> a.detail,
   declared |-> a.declared,
   winners  |-> IF cwlRan THEN File(cwl.results) ELSE winners[week],
   totals   |-> IF cwlRan THEN cwl.totals ELSE totals,
   cwlRan   |-> cwlRan,
   log      |-> a.log \o (IF cwlRan THEN <<>>
                          ELSE <<LogLine("Missing picks or declared winners")>>)]

WinnersFromListCalculated(week, a) ==
  ResultFiles(week, a, picks[week].exists /\ a.declared.exists,
              calculateWinnersFromList(picks[week].body, a.declared.body, totals))

\* the state after calculateTotalWinners(week); calculateWinnersFromList(week)
\* left the files c
CalculatedAs(week, c, logBefore) ==
  /\ detail' = [detail EXCEPT ![week] = c.detail]
  /\ declared' = [declared EXCEPT ![week] = c.declared]
  /\ winners' = [winners EXCEPT ![week] = c.winners]
  /\ totals' = c.totals
  /\ runs' = IF c.cwlRan THEN runs + 1 ELSE runs
  /\ log' = logBefore \o c.log

Calculated(week, scoresFile, logBefore) ==
  CalculatedAs(week,
               WinnersFromListCalculated(week, TotalWinnersCalculated(week, scoresFile)),
               logBefore)

\* the files a request wrote into backups/: the copy of the file it replaces,
\* the raw upload, the verify report
Backups(prior, raw, report) == [prior |-> prior, raw |-> raw, report |-> report]

NoBackup == Backups(NoFile, NoFile, NoFile)

\* mutant: the target is replaced without a copy
PriorCopy_None(target) == NoFile

\* the copy copyFileSync makes of a target that exists (force was given)
PriorCopy(target) == IF target.exists THEN target ELSE NoFile

\* a request that is answered before a data file is written; it had written
\* the files written into backups/
RejectedAfter(response, written) ==
  /\ res' = response
  /\ log' = <<>>
  /\ backup' = written
  /\ UNCHANGED <<fileVars, adminVars, submission, runs>>

\* a request that is answered before anything is written
Rejected(response) == RejectedAfter(response, NoBackup)

\* the Excel scores handler once the week's games file is known to exist
ScoresSaved(week, ordered) ==
  /\ scores' = [scores EXCEPT ![week] = File(ordered.ordered)]
  /\ Calculated(week, File(ordered.ordered), ordered.log)
  /\ res' = Response("excel", week, 200, EmptyReport)
  /\ backup' = Backups(PriorCopy(scores[week]), NoFile, NoFile)
  /\ UNCHANGED <<teamNameMap, upload, games, picks, adminVars, submission>>

\* mutant: without the week's games file the sheet is ordered against no games
\* and saved
UploadScores_SavesWithoutGames(force) ==
  /\ runs < MaxRuns
  /\ UNCHANGED <<normVars, siteVars>>
  /\ IF scores[upload.week].exists /\ ~force
     THEN Rejected(Response("excel", upload.week, 409, EmptyReport))
     ELSE ScoresSaved(upload.week,
            OrderScores(games[upload.week].body, ParseScoreRows(upload.rows)))

\* POST /api/upload/scores: the Excel scores sheet in uploads/
UploadScores(force) ==
  /\ runs < MaxRuns
  /\ UNCHANGED <<normVars, siteVars>>
  /\ IF scores[upload.week].exists /\ ~force
     THEN Rejected(Response("excel", upload.week, 409, EmptyReport))
     ELSE IF ~games[upload.week].exists
     THEN RejectedAfter(Response("excel", upload.week, 400, EmptyReport),
                        Backups(PriorCopy(scores[upload.week]), NoFile, NoFile))
     ELSE ScoresSaved(upload.week,
            OrderScores(games[upload.week].body, ParseScoreRows(upload.rows)))

\* the json-direct scores branch once verifyNormalizeScores returned v
JsonScoresSaved(week, v) ==
  /\ scores' = [scores EXCEPT ![week] = File(v.ordered)]
  /\ Calculated(week, File(v.ordered), <<>>)
  /\ res' = Response("json", week, 200, v.report)
  /\ backup' = Backups(PriorCopy(scores[week]), File(upload.rows), File(v.report))
  /\ UNCHANGED <<teamNameMap, upload, games, picks, adminVars, submission>>

\* POST /api/upload/json-direct with a scores_week_N.json in uploads/
UploadJsonScores(force) ==
  /\ runs < MaxRuns
  /\ UNCHANGED <<normVars, siteVars>>
  /\ IF scores[upload.week].exists /\ ~force
     THEN Rejected(Response("json", upload.week, 409, EmptyReport))
     ELSE IF ~games[upload.week].exists
     THEN RejectedAfter(Response("json", upload.week, 400, EmptyReport),
                        Backups(PriorCopy(scores[upload.week]), File(upload.rows), NoFile))
     ELSE JsonScoresSaved(upload.week,
            verifyNormalizeScores(games[upload.week].body, upload.rows, teamNameMap))

\* ALL /api/calculate-totalwinners/:week
CalculateRoute(week) ==
  /\ runs < MaxRuns
  /\ UNCHANGED <<normVars, siteVars>>
  /\ Calculated(week, scores[week], <<>>)
  /\ res' = Response("calculate", week, 200, EmptyReport)
  /\ backup' = NoBackup
  /\ UNCHANGED <<teamNameMap, upload, games, scores, picks, adminVars, submission>>

(***************************************************************************)
(* Spread uploads and reset                                                *)
(***************************************************************************)
\* a block of the spread sheet yields a game: its two name cells are filled
\* and not blank, and both spread cells parse as numbers
SpreadRowKept(row) ==
  /\ row.team1 \notin {Missing, ""}
  /\ row.team2 \notin {Missing, ""}
  /\ TrimName(row.team1) # ""
  /\ TrimName(row.team2) # ""
  /\ Has(row, "spread1")
  /\ Has(row, "spread2")

\* the games the Excel spread handler builds from the sheet, names trimmed
ParseSpreadRows(rows) ==
  LET kept == SelectSeq(rows, SpreadRowKept)
  IN  [i \in 1..Len(kept) |->
         [team1 |-> TrimName(kept[i].team1), spread1 |-> kept[i].spread1,
          team2 |-> TrimName(kept[i].team2), spread2 |-> kept[i].spread2]]

\* a spread upload that is not refused: the copy of the games file it
\* replaces, the games file, current_week.json
SpreadSaved(route, week, body) ==
  /\ backup' = Backups(PriorCopy(games[week]), NoFile, NoFile)
  /\ games' = [games EXCEPT ![week] = File(body)]
  /\ currentWeek' = week
  /\ res' = Response(route, week, 200, EmptyReport)
  /\ log' = <<>>
  /\ UNCHANGED <<teamNameMap, upload, scores, detail, declared, picks, winners, totals>>
  /\ UNCHANGED <<roster, spreadUpload, submission, runs>>

\* POST /api/upload/spread: the Excel spread sheet in uploads/
UploadSpread(force) ==
  /\ UNCHANGED <<normVars, siteVars>>
  /\ IF games[spreadUpload.week].exists /\ ~force
     THEN Rejected(Response("spread", spreadUpload.week, 409, EmptyReport))
     ELSE SpreadSaved("spread", spreadUpload.week, ParseSpreadRows(spreadUpload.rows))

\* POST /api/upload/json-direct with a games_week_N.json in uploads/: saved
\* as it is
UploadJsonGames(force) ==
  /\ UNCHANGED <<normVars, siteVars>>
  /\ IF games[spreadUpload.week].exists /\ ~force
     THEN Rejected(Response("json-games", spreadUpload.week, 409, EmptyReport))
     ELSE SpreadSaved("json-games", spreadUpload.week, spreadUpload.rows)

\* mutant: totals.json is left as it is
ResetSystem_KeepsTotals ==
  /\ games' = NoFiles
  /\ scores' = NoFiles
  /\ picks' = NoFiles
  /\ winners' = NoFiles
  /\ detail' = NoFiles
  /\ declared' = NoFiles
  /\ currentWeek' = 1
  /\ runs' = 0
  /\ backup' = NoBackup
  /\ res' = Response("reset", 0, 200, EmptyReport)
  /\ log' = <<>>
  /\ UNCHANGED <<teamNameMap, upload, roster, spreadUpload, submission, totals>>
  /\ UNCHANGED <<normVars, siteVars>>

\* POST /api/reset-system: every week file removed, current_week.json and
\* totals.json written anew
ResetSystem ==
  /\ games' = NoFiles
  /\ scores' = NoFiles
  /\ picks' = NoFiles
  /\ winners' = NoFiles
  /\ detail' = NoFiles
  /\ declared' = NoFiles
  /\ currentWeek' = 1
  /\ totals' = <<>>
  /\ runs' = 0
  /\ backup' = NoBackup
  /\ res' = Response("reset", 0, 200, EmptyReport)
  /\ log' = <<>>
  /\ UNCHANGED <<teamNameMap, upload, roster, spreadUpload, submission>>
  /\ UNCHANGED <<normVars, siteVars>>

(***************************************************************************)
(* Authentication and pick submission                                      *)
(***************************************************************************)
\* the status handleAuthenticate answers for a name and a pin
AuthStatus(name, pin) ==
  IF TrimName(name) = "" \/ pin = "" THEN 400
  ELSE IF ~roster.exists THEN 404
  ELSE IF \E i \in 1..Len(roster.body) :
            /\ roster.body[i].name # ""
            /\ Folded(roster.body[i].name) = Folded(name)
            /\ roster.body[i].pin = pin
       THEN 200
       ELSE 401

\* Number(v) of the JSON values it turns into a finite number, by their JSON
\* text; Number(null) is 0
FiniteNumber == ("0" :> 0) @@ ("1" :> 1) @@ ("null" :> 0)

\* Number.isFinite(Number(p?.gameIndex)): Number(undefined) is NaN
FiniteIndex(p) == Has(p, "gameIndex") /\ p.gameIndex \in DOMAIN FiniteNumber

\* String(p?.pick || '').trim()
PickText(p) == IF Has(p, "pick") THEN TrimName(p.pick) ELSE ""

\* picksIn.map(...).filter(...)
NormalizePicks(picksIn) ==
  LET kept == SelectSeq(picksIn, LAMBDA p : FiniteIndex(p) /\ PickText(p) # "")
  IN  [i \in 1..Len(kept) |->
         [gameIndex |-> FiniteNumber[kept[i].gameIndex], pick |-> PickText(kept[i])]]

\* Number(req.query.week || req.body?.week) || getCurrentWeekNumber(); a
\* body without week is written with week 0
GuardWeek(body) == IF body.week > 0 THEN body.week ELSE currentWeek

\* isLockedNow(week): no cutoff can be computed without games, and closed
\* says that no game date parses or that the cutoff has passed
Locked(week, closed) ==
  \/ ~games[week].exists
  \/ games[week].body = <<>>
  \/ closed

\* a submission that is answered before anything is written
Refused(response) ==
  /\ res' = response
  /\ log' = <<>>
  /\ backup' = NoBackup
  /\ UNCHANGED <<fileVars, adminVars, runs>>

\* mutant: the names are compared as they are written
AlreadySubmitted_CaseSensitive(data, name) ==
  \E i \in 1..Len(data) : data[i].player = name

\* data.some(e => (e.player || '').trim().toLowerCase() === name.toLowerCase())
AlreadySubmitted(data, name) ==
  \E i \in 1..Len(data) : Folded(data[i].player) = toLowerCase(Chars[name])

\* data.push({ player: name, pin, picks, week, submittedAt })
StoredEntry(name, pin, playerPicks, week) ==
  [player |-> name, pin |-> pin, picks |-> playerPicks, week |-> week]

\* the duplicate test and what follows it in both routes: 409, or the copy of
\* the picks file and the file with the new entry
SubmissionChecked(route, week, name, pin, playerPicks) ==
  IF AlreadySubmitted(picks[week].body, name)
  THEN Refused(Response(route, week, 409, EmptyReport))
  ELSE /\ backup' = Backups(PriorCopy(picks[week]), NoFile, NoFile)
       /\ picks' = [picks EXCEPT ![week] =
                      File(Append(@.body, StoredEntry(name, pin, playerPicks, week)))]
       /\ res' = Response(route, week, 200, EmptyReport)
       /\ log' = <<>>
       /\ UNCHANGED <<teamNameMap, upload, games, scores, detail, declared, winners, totals>>
       /\ UNCHANGED <<adminVars, runs>>

\* the handler of /submit-picks/:week behind the cutoff guard
SubmitPicksOpen(week, name, pin, playerPicks) ==
  IF name = "" \/ pin = "" THEN Refused(Response("submit", week, 400, EmptyReport))
  ELSE IF Len(playerPicks) = 0 THEN Refused(Response("submit", week, 400, EmptyReport))
  ELSE IF Len(playerPicks) > MaxPicksAllowed
  THEN Refused(Response("submit", week, 400, EmptyReport))
  ELSE SubmissionChecked("submit", week, name, pin, playerPicks)

\* POST /submit-picks/:week
SubmitPicks(week, body, closed) ==
  /\ submission' = [route |-> "submit", param |-> week, week |-> body.week,
                     name |-> body.name, pin |-> body.pin, picks |-> body.picks]
  /\ UNCHANGED <<normVars, siteVars>>
  /\ IF Locked(GuardWeek(body), closed)
     THEN Refused(Response("submit", GuardWeek(body), 403, EmptyReport))
     ELSE SubmitPicksOpen(week, TrimName(body.name), body.pin, NormalizePicks(body.picks))

\* the handler of /api/submit-picks behind the cutoff guard
ApiSubmitPicksOpen(week, name, pin, picksIn) ==
  IF name = "" \/ pin = "" \/ Len(picksIn) = 0
  THEN Refused(Response("api-submit", week, 400, EmptyReport))
  ELSE IF Len(picksIn) > MaxPicksAllowed
  THEN Refused(Response("api-submit", week, 400, EmptyReport))
  ELSE SubmissionChecked("api-submit", week, name, pin, NormalizePicks(picksIn))

\* POST /api/submit-picks
ApiSubmitPicks(body, closed) ==
  /\ submission' = [route |-> "api-submit", param |-> 0, week |-> body.week,
                     name |-> body.name, pin |-> body.pin, picks |-> body.picks]
  /\ UNCHANGED <<normVars, siteVars>>
  /\ IF Locked(GuardWeek(body), closed)
     THEN Refused(Response("api-submit", GuardWeek(body), 403, EmptyReport))
     ELSE ApiSubmitPicksOpen(GuardWeek(body), TrimName(body.name), body.pin, body.picks)

(***************************************************************************)
(* The normalizers on their own                                            *)
(***************************************************************************)
NormalizeName ==
  /\ npc = "start"
  /\ nOut' = normalizeName(nIn)
  /\ npc' = "once"
  /\ UNCHANGED <<fileVars, adminVars, siteVars, backup, submission, reqVars, nIn, nOut2, vOut, vOut2>>

NormalizeNameAgain ==
  /\ npc = "once"
  /\ nOut2' = normalizeName(nOut)
  /\ npc' = "twice"
  /\ UNCHANGED <<fileVars, adminVars, siteVars, backup, submission, reqVars, nIn, nOut, vOut, vOut2>>

ScriptNormalize ==
  /\ npc = "twice"
  /\ vOut' = normalize(nIn)
  /\ npc' = "script"
  /\ UNCHANGED <<fileVars, adminVars, siteVars, backup, submission, reqVars, nIn, nOut, nOut2, vOut2>>

ScriptNormalizeAgain ==
  /\ npc = "script"
  /\ vOut2' = normalize(vOut)
  /\ npc' = "done"
  /\ UNCHANGED <<fileVars, adminVars, siteVars, backup, submission, reqVars, nIn, nOut, nOut2, vOut>>

(***************************************************************************)
(* Settings, chat and cutoff                                               *)
(***************************************************************************)
\* the POST /api/chat requests that can be in flight together
Posters == {1, 2}

\* a chat message: who posted it and which of the posted texts it is
ChatMessage(name, message) == [name |-> name, message |-> message]

\* a request that has not arrived or has been answered
NotPosting == [pc |-> "idle", message |-> ChatMessage("", 0), read |-> <<>>]

\* computeCutoffForWeek returned null
NoCutoff == [known |-> FALSE, day |-> 0, hour |-> 0]

\* a request that was not answered with a file
NothingServed == [kind |-> "none", week |-> 0, body |-> <<>>]

\* no settings and no chat file, ADMIN_TOKEN not set, nothing asked for
SiteIdle ==
  /\ settings = NoFile
  /\ adminToken = ""
  /\ chat = NoFile
  /\ posting = [p \in Posters |-> NotPosting]
  /\ served = NothingServed
  /\ kickoffs = <<>>
  /\ cutoff = NoCutoff

\* the three modes of picks visibility, as the characters of their names
ModeOn == <<"o", "n">>

ModeOff == <<"o", "f", "f">>

ModeAuto == <<"a", "u", "t", "o">>

VisibilityModes == {ModeOn, ModeOff, ModeAuto}

\* obj[key] is there and is not the empty string
Truthy(obj, key) == Has(obj, key) /\ obj[key] # <<>>

\* readSettings: the object in app_settings.json, or the default
readSettings ==
  IF settings.exists THEN settings.body ELSE [picksVisibilityMode |-> ModeAuto]

\* s.picksVisibilityMode || s.mode || 'auto'
StoredMode(s) ==
  IF Truthy(s, "picksVisibilityMode") THEN s.picksVisibilityMode
  ELSE IF Truthy(s, "mode") THEN s.mode
  ELSE ModeAuto

\* mutant: the stored text is taken as it is
getPicksVisibilityMode_AsStored == StoredMode(readSettings)

\* getPicksVisibilityMode
getPicksVisibilityMode ==
  LET mode == toLowerCase(StoredMode(readSettings))
  IN  IF mode \in VisibilityModes THEN mode ELSE ModeAuto

\* shouldRevealPicksNow(week) at a moment when closed says whether the
\* cutoff has passed
shouldRevealPicksNow(week, closed) ==
  IF getPicksVisibilityMode = ModeOn THEN TRUE
  ELSE IF getPicksVisibilityMode = ModeOff THEN FALSE
  ELSE Locked(week, closed)

\* mutant: every request is taken as the admin's
authOk_Always(key) == TRUE

\* authOk: no ADMIN_TOKEN configured, or ?key= is the token
authOk(key) == adminToken = "" \/ key = adminToken

\* a request about the settings or for a file is answered; it wrote the
\* given files into backups/ and no week file
SiteAnswered(response, written) ==
  /\ res' = response
  /\ log' = <<>>
  /\ backup' = written
  /\ UNCHANGED <<fileVars, adminVars, submission, runs, normVars>>
  /\ UNCHANGED <<adminToken, chat, posting, kickoffs, cutoff>>

\* POST /api/picks-visibility?key=... with body {mode}
SetPicksVisibility(key, mode) ==
  IF ~authOk(key)
  THEN /\ SiteAnswered(Response("visibility", 0, 403, EmptyReport), NoBackup)
       /\ UNCHANGED <<settings, served>>
  ELSE IF toLowerCase(mode) \notin VisibilityModes
  THEN /\ SiteAnswered(Response("visibility", 0, 400, EmptyReport), NoBackup)
       /\ UNCHANGED <<settings, served>>
  ELSE /\ SiteAnswered(Response("visibility", 0, 200, EmptyReport),
                       Backups(PriorCopy(settings), NoFile, NoFile))
       /\ settings' = File([picksVisibilityMode |-> toLowerCase(mode)] @@ readSettings)
       /\ UNCHANGED served

\* Number(m[1]) || getCurrentWeekNumber() of the week a file request names
RequestedWeek(week) == IF week > 0 THEN week ELSE currentWeek

\* a file request is answered with picks_week_N.json, or 404 when it is not
\* there
PicksFileSent(route, week, file) ==
  /\ UNCHANGED settings
  /\ IF week \in Weeks /\ picks[week].exists
     THEN /\ SiteAnswered(Response(route, week, 200, EmptyReport), NoBackup)
          /\ served' = [kind |-> file, week |-> week, body |-> picks[week].body]
     ELSE /\ SiteAnswered(Response(route, week, 404, EmptyReport), NoBackup)
          /\ served' = NothingServed

\* a file request is refused
FileRefused(route, week) ==
  /\ SiteAnswered(Response(route, week, 403, EmptyReport), NoBackup)
  /\ served' = NothingServed
  /\ UNCHANGED settings

\* GET /data/picks_week_N.json: the guard, then express.static
GetDataPicks(week, closed) ==
  IF ~shouldRevealPicksNow(RequestedWeek(week), closed)
  THEN FileRefused("data", week)
  ELSE PicksFileSent("data", week, "picks")

\* GET /api/picks_week_N.json
GetApiPicks(week, closed) ==
  IF ~shouldRevealPicksNow(RequestedWeek(week), closed)
  THEN FileRefused("api-picks", RequestedWeek(week))
  ELSE PicksFileSent("api-picks", RequestedWeek(week), "picks")

\* GET /api/download/picks_week_N.json
DownloadPicks(week) == PicksFileSent("download", week, "picks")

\* chat.json keeps this many messages
ChatLimit == 50

\* a message may have this many characters
MaxMessageLength == 1000

\* the text of a post: which text it is and how many characters it has
\* after trimming
ChatText(id, length) == [id |-> id, length |-> length]

\* mutant: every message is kept
KeepLast_All(messages) == messages

\* messages.slice(-50)
KeepLast(messages) ==
  IF Len(messages) <= ChatLimit THEN messages
  ELSE SubSeq(messages, Len(messages) - ChatLimit + 1, Len(messages))

\* roster.some(r => norm(r.name) === norm(nameRaw))
OnRoster(name) ==
  \E i \in 1..Len(roster.body) : Folded(roster.body[i].name) = Folded(name)

\* the text is in chat.json or on its way there
Posted(id) ==
  \/ \E i \in 1..Len(chat.body) : chat.body[i].message = id
  \/ \E q \in Posters : posting[q].pc # "idle" /\ posting[q].message.message = id

\* a chat request is answered without a file being written
ChatRefused(status) ==
  /\ res' = Response("chat", 0, status, EmptyReport)
  /\ log' = <<>>
  /\ backup' = NoBackup
  /\ UNCHANGED <<chat, posting>>

\* POST /api/chat up to its fs.readFile call: the checks of the name, the
\* message and the roster, and the new message
PostChat(p, name, text) ==
  /\ posting[p].pc = "idle"
  /\ ~Posted(text.id)
  /\ UNCHANGED <<fileVars, adminVars, submission, runs, normVars>>
  /\ UNCHANGED <<settings, adminToken, served, kickoffs, cutoff>>
  /\ IF TrimName(name) = "" \/ text.length = 0 THEN ChatRefused(400)
     ELSE IF text.length > MaxMessageLength THEN ChatRefused(400)
     ELSE IF ~roster.exists \/ ~OnRoster(name) THEN ChatRefused(403)
     ELSE /\ posting' = [posting EXCEPT ![p] =
                           [pc |-> "reading",
                            message |-> ChatMessage(TrimName(name), text.id),
                            read |-> <<>>]]
          /\ UNCHANGED <<chat, res, log, backup>>

\* the callback of fs.readFile: the messages of chat.json (none when it is
\* not there), the backup copy, and the fs.writeFile call
ChatRead(p) ==
  /\ posting[p].pc = "reading"
  /\ posting' = [posting EXCEPT ![p] =
                   [@ EXCEPT !.pc = "writing",
                             !.read = IF chat.exists THEN chat.body ELSE <<>>]]
  /\ backup' = Backups(PriorCopy(chat), NoFile, NoFile)
  /\ UNCHANGED <<fileVars, adminVars, submission, reqVars, normVars>>
  /\ UNCHANGED <<settings, adminToken, chat, served, kickoffs, cutoff>>

\* fs.writeFile and its callback: chat.json is the last 50 of the messages
\* read and the new one, and the request is answered success
ChatWrite(p) ==
  /\ posting[p].pc = "writing"
  /\ chat' = File(KeepLast(Append(posting[p].read, posting[p].message)))
  /\ posting' = [posting EXCEPT ![p] = NotPosting]
  /\ res' = Response("chat", 0, 200, EmptyReport)
  /\ log' = <<>>
  /\ UNCHANGED <<fileVars, adminVars, submission, runs, backup, normVars>>
  /\ UNCHANGED <<settings, adminToken, served, kickoffs, cutoff>>

\* POST or GET /api/admin/clear-chat?key=...
ClearChat(key) ==
  /\ UNCHANGED <<fileVars, adminVars, submission, runs, normVars>>
  /\ UNCHANGED <<settings, adminToken, posting, served, kickoffs, cutoff>>
  /\ log' = <<>>
  /\ IF ~authOk(key)
     THEN /\ res' = Response("clear-chat", 0, 403, EmptyReport)
          /\ backup' = NoBackup
          /\ UNCHANGED chat
     ELSE /\ res' = Response("clear-chat", 0, 200, EmptyReport)
          /\ backup' = Backups(PriorCopy(chat), NoFile, NoFile)
          /\ chat' = File(<<>>)

\* the days of two weeks, counted from a Sunday
MaxDay == 13

\* the hours at which a game kicks off
KickoffHours == {0, 12, 13, 14, 20}

\* th.setHours(13, 0, 0, 0)
CutoffHour == 13

\* parseGameDate of a date field that does not parse, or is not there
NoDate == [parsed |-> FALSE, day |-> 0, hour |-> 0]

\* parseGameDate of a date field that parses: the day and the hour it names
GameDate(day, hour) == [parsed |-> TRUE, day |-> day, hour |-> hour]

\* Date.getDay(): 0 is Sunday, 4 is Thursday
getDay(day) == day % 7

\* dt < earliest
Before(dt, earliest) ==
  dt.day < earliest.day \/ (dt.day = earliest.day /\ dt.hour < earliest.hour)

\* the loop over the games from date i on: the earliest date that parses
RECURSIVE EarliestFrom(_, _, _)
EarliestFrom(dates, i, earliest) ==
  IF i > Len(dates) THEN earliest
  ELSE EarliestFrom(dates, i + 1,
         IF dates[i].parsed /\ (~earliest.parsed \/ Before(dates[i], earliest))
         THEN dates[i]
         ELSE earliest)

\* computeCutoffForWeek for a games file whose games have these dates: null
\* without games or without a date that parses, else 13:00 on the day
\* earliest.getDate() + (4 - earliest.getDay())
computeCutoffForWeek(dates) ==
  LET earliest == EarliestFrom(dates, 1, NoDate)
  IN  IF dates = <<>> \/ ~earliest.parsed THEN NoCutoff
      ELSE [known |-> TRUE,
            day   |-> earliest.day + (4 - getDay(earliest.day)),
            hour  |-> CutoffHour]

\* isLockedNow or the submit guard asks for the cutoff of the week
ComputeCutoff ==
  /\ kickoffs # <<>>
  /\ cutoff = NoCutoff
  /\ cutoff' = computeCutoffForWeek(kickoffs)
  /\ UNCHANGED <<fileVars, adminVars, backup, submission, reqVars, normVars>>
  /\ UNCHANGED <<settings, adminToken, chat, posting, served, kickoffs>>

(***************************************************************************)
(* Specifications                                                          *)
(***************************************************************************)
NoSubmission ==
  [route |-> "none", param |-> 0, week |-> 0, name |-> "", pin |-> "", picks |-> <<>>]

\* no roster uploaded, no spread file waiting, nothing submitted or backed up
Unused ==
  /\ currentWeek = 1
  /\ roster = NoFile
  /\ spreadUpload = [week |-> 1, rows |-> <<>>]
  /\ backup = NoBackup
  /\ submission = NoSubmission

\* the data directory right after the server started, nothing requested yet
EmptyData ==
  /\ teamNameMap = <<>>
  /\ upload = [week |-> 1, rows |-> <<>>]
  /\ games = NoFiles
  /\ scores = NoFiles
  /\ detail = NoFiles
  /\ declared = NoFiles
  /\ picks = NoFiles
  /\ winners = NoFiles
  /\ totals = <<>>
  /\ Unused
  /\ res = NoResponse
  /\ log = <<>>
  /\ runs = 0

NormIdle ==
  /\ nIn = <<>>
  /\ nOut = <<>>
  /\ nOut2 = <<>>
  /\ vOut = <<>>
  /\ vOut2 = <<>>
  /\ npc = "idle"

\* the normalizers applied to every name up to MaxLen characters
InitNorm ==
  /\ EmptyData
  /\ SiteIdle
  /\ nIn \in NormInputs
  /\ nOut = <<>>
  /\ nOut2 = <<>>
  /\ vOut = <<>>
  /\ vOut2 = <<>>
  /\ npc = "start"

NextNorm == NormalizeName \/ NormalizeNameAgain \/ ScriptNormalize \/ ScriptNormalizeAgain

SpecNorm == InitNorm /\ [][NextNorm]_vars

\* C8: normalizeName is idempotent: normalizing the result of normalizeName
\* again gives the same string, whatever the letter case of a trailing
\* "state"; the same for normalize of verifyScoreMatches.js
C8_NormalizeIdempotent ==
  /\ npc \in {"twice", "script", "done"} => nOut2 = nOut
  /\ npc = "done" => vOut2 = vOut

\* "statE" was normalized to "st", and "st" was normalized again
C8_Witness ==
  /\ npc = "done"
  /\ nIn = <<"s", "t", "a", "t", "E">>
  /\ nOut = <<"s", "t">>
  /\ nOut2 = <<"s", "t">>

\* the algorithm of the specification, written out on its own: the letters and
\* digits of the name in their order
LettersAndDigits(s) ==
  SelectSeq(s, LAMBDA c : c \in UpperSet \cup LowerSet \cup DigitSet)

\* ... a trailing "state" in any case replaced by "st", the rest lower-cased
SuffixAndLower(s) ==
  LET low == [i \in 1..Len(s) |-> IF s[i] \in UpperSet THEN LowerOf[s[i]] ELSE s[i]]
      n   == Len(s)
  IN  IF n >= 5 /\ <<low[n - 4], low[n - 3], low[n - 2], low[n - 1], low[n]>>
                     = <<"s", "t", "a", "t", "e">>
      THEN [i \in 1..(n - 3) |-> IF i = n - 4 THEN "s" ELSE IF i = n - 3 THEN "t" ELSE low[i]]
      ELSE low

\* C9: for every input, normalizeName returns the input without its
\* non-alphanumeric characters, a trailing "state" (any case) replaced by
\* "st", lower-cased; the result has only characters of [a-z0-9] and is a
\* string for every input, the empty string and a missing name included;
\* normalize of verifyScoreMatches.js computes the same for every string
C9_NormalizeAlgorithm ==
  /\ npc # "start" =>
        /\ nOut # Undefined
        /\ nOut = SuffixAndLower(LettersAndDigits(IF nIn = Undefined THEN <<>> ELSE nIn))
        /\ \A i \in 1..Len(nOut) : nOut[i] \in LowerSet \cup DigitSet
  /\ (npc \in {"script", "done"} /\ nIn # Undefined) => vOut = nOut

\* "stat.E": the suffix appears only once the punctuation is removed
C9_Witness ==
  /\ npc = "once"
  /\ nIn = <<"s", "t", "a", "t", ".", "E">>
  /\ nOut = <<"s", "t">>

\* week 1 has its spread, a scores file waits in uploads/, nobody has picked
InitMatch ==
  /\ teamNameMap \in TeamNameMaps
  /\ upload \in [week : {1}, rows : ScoreLists]
  /\ games \in {[w \in Weeks |-> IF w = 1 THEN f ELSE NoFile] :
                  f \in {NoFile} \cup {File(g) : g \in GameLists}}
  /\ scores = NoFiles
  /\ detail = NoFiles
  /\ declared = NoFiles
  /\ picks = NoFiles
  /\ winners = NoFiles
  /\ totals = <<>>
  /\ Unused
  /\ res = NoResponse
  /\ log = <<>>
  /\ runs = 0
  /\ NormIdle
  /\ SiteIdle

NextMatch ==
  \/ \E force \in BOOLEAN : UploadScores(force)
  \/ \E force \in BOOLEAN : UploadJsonScores(force)
  \/ CalculateRoute(1)

SpecMatch == InitMatch /\ [][NextMatch]_vars

\* a season under way: week 1 has its spread and its picks, a scores file
\* waits in uploads/, totals.json is still empty
InitStand ==
  /\ teamNameMap = <<>>
  /\ upload \in [week : {1}, rows : StandScoreLists]
  /\ games = [w \in Weeks |-> IF w = 1 THEN File(StandGames) ELSE NoFile]
  /\ scores = NoFiles
  /\ detail = NoFiles
  /\ declared = NoFiles
  /\ picks \in {[w \in Weeks |-> IF w = 1 THEN File(f) ELSE NoFile] : f \in PicksFiles}
  /\ winners = NoFiles
  /\ totals = <<>>
  /\ Unused
  /\ res = NoResponse
  /\ log = <<>>
  /\ runs = 0
  /\ NormIdle
  /\ SiteIdle

NextStand ==
  \/ \E force \in BOOLEAN : UploadScores(force)
  \/ \E force \in BOOLEAN : UploadJsonScores(force)
  \/ CalculateRoute(1)

SpecStand == InitStand /\ [][NextStand]_vars

\* the spread files of the season: Ohio State -3 against Michigan; that game
\* after Michigan +0.5 against Iowa, the first name padded; a block whose
\* spread1 is not there; Michigan +3 against Ohio State, the first game with
\* its teams in the other order
LifeSpreadLists ==
  {<<GameRecord(OhioState, -6, Michigan, 6)>>,
   <<GameRecord(Michigan, 6, OhioState, -6)>>,
   <<GameRecord(MichiganPadded, 1, Iowa, 1), GameRecord(OhioState, -6, Michigan, 6)>>,
   <<[team1 |-> Michigan, team2 |-> Iowa, spread2 |-> 1]>>}

\* the scores files of the season: Ohio State covering; that result after
\* Michigan covering against Iowa; a row that ends before its second score
LifeScoreLists ==
  {<<ScoreRow(Michigan, 10, OhioSt, 20)>>,
   <<ScoreRow(Iowa, 10, Michigan, 13), ScoreRow(Michigan, 10, OhioSt, 20)>>,
   <<[team1 |-> OhioSt, score1 |-> 13, team2 |-> Michigan]>>}

\* Ann's picks of week 1
LifePicks == <<PickEntry(Ann, <<PickRecord(0, OhioState), PickRecord(1, Michigan)>>)>>

\* the season over its weeks: nothing uploaded yet, or week 1 with its spread
\* and maybe Ann's picks; a spread file and a scores file wait in uploads/,
\* each for either week
InitLife ==
  /\ teamNameMap = <<>>
  /\ upload \in [week : Weeks, rows : LifeScoreLists]
  /\ spreadUpload \in [week : Weeks, rows : LifeSpreadLists]
  /\ games \in {NoFiles, [w \in Weeks |-> IF w = 1 THEN File(StandGames) ELSE NoFile]}
  /\ picks \in {NoFiles} \cup {[w \in Weeks |-> IF w = 1 THEN File(LifePicks) ELSE NoFile] :
                                  started \in {games[1].exists} \ {FALSE}}
  /\ scores = NoFiles
  /\ detail = NoFiles
  /\ declared = NoFiles
  /\ winners = NoFiles
  /\ totals = <<>>
  /\ currentWeek = 1
  /\ roster = NoFile
  /\ backup = NoBackup
  /\ submission = NoSubmission
  /\ res = NoResponse
  /\ log = <<>>
  /\ runs = 0
  /\ NormIdle
  /\ SiteIdle

NextLife ==
  \/ \E force \in BOOLEAN : UploadSpread(force)
  \/ \E force \in BOOLEAN : UploadJsonGames(force)
  \/ \E force \in BOOLEAN : UploadScores(force)
  \/ \E force \in BOOLEAN : UploadJsonScores(force)
  \/ \E week \in Weeks : CalculateRoute(week)
  \/ ResetSystem

SpecLife == InitLife /\ [][NextLife]_vars

\* the pin roster.json lists for Ann, and another one
RosterPin == "1234"

WrongPin == "0000"

\* roster.json as the roster upload writes it
RosterFile == File(<<[name |-> Ann, pin |-> RosterPin]>>)

\* who submits: Ann with her pin, Ann in capitals with another pin, Bob (who
\* is not on the roster) with a blank after his name, nobody
Credentials ==
  {[name |-> Ann, pin |-> RosterPin], [name |-> AnnUpper, pin |-> WrongPin],
   [name |-> BobPadded, pin |-> WrongPin], [name |-> "", pin |-> RosterPin]}

\* a pick as the form sends it, gameIndex as its JSON text
RawPick(gameIndex, pick) == [gameIndex |-> gameIndex, pick |-> pick]

\* ten picks, and an eleventh one that names no team
TenAndOne ==
  [i \in 1..(MaxPicksAllowed + 1) |->
     IF i <= MaxPicksAllowed THEN RawPick("1", MichiganPadded) ELSE RawPick("1", "")]

\* the picks of a submission: a pick and one without gameIndex; one whose
\* gameIndex is null and one that names no team; no valid pick at all; ten
\* picks and an invalid one
RawPickLists ==
  {<<RawPick("0", OhioState), [pick |-> Iowa]>>,
   <<RawPick("null", Michigan), RawPick("1", "")>>,
   <<[pick |-> Iowa]>>,
   TenAndOne}

\* the request bodies: week 2 named, or no week
SubmitBodies ==
  {[week |-> w, name |-> c.name, pin |-> c.pin, picks |-> l] :
     w \in {0, 2}, c \in Credentials, l \in RawPickLists}

\* the results of week 1 as the JSON upload stored them: Ohio State and
\* Michigan cover
PicksScores == <<ScoreRow(OhioState, 20, Michigan, 10), ScoreRow(Michigan, 13, Iowa, 10)>>

\* week 1 has its spread, its scores and its declared winners; nobody has
\* submitted picks; the roster lists Ann
InitPicks ==
  /\ teamNameMap = <<>>
  /\ upload = [week |-> 1, rows |-> <<>>]
  /\ spreadUpload = [week |-> 1, rows |-> <<>>]
  /\ games = [w \in Weeks |-> IF w = 1 THEN File(StandGames) ELSE NoFile]
  /\ scores = [w \in Weeks |-> IF w = 1 THEN File(PicksScores) ELSE NoFile]
  /\ detail = [w \in Weeks |->
                 IF w = 1 THEN File(calculateTotalWinners(StandGames, PicksScores).detail)
                 ELSE NoFile]
  /\ declared = [w \in Weeks |->
                   IF w = 1
                   THEN File(calculateTotalWinners(StandGames, PicksScores).declaredWinners)
                   ELSE NoFile]
  /\ picks = NoFiles
  /\ winners = NoFiles
  /\ totals = <<>>
  /\ currentWeek = 1
  /\ roster = RosterFile
  /\ backup = NoBackup
  /\ submission = NoSubmission
  /\ res = NoResponse
  /\ log = <<>>
  /\ runs = 0
  /\ NormIdle
  /\ SiteIdle

NextPicks ==
  \/ \E body \in SubmitBodies, closed \in BOOLEAN : SubmitPicks(1, body, closed)
  \/ \E body \in SubmitBodies, closed \in BOOLEAN : ApiSubmitPicks(body, closed)

SpecPicks == InitPicks /\ [][NextPicks]_vars

\* the picks of week 1: Ann and Bob name one winner each
FirstWeekPicks ==
  <<PickEntry(Ann, <<PickRecord(0, OhioState)>>),
    PickEntry(BobPadded, <<PickRecord(1, Michigan)>>)>>

\* the picks files of a week that gives nobody a point: an empty list; Ann's
\* entry without a pick, as /api/submit-picks stores it; Ann with a pick and
\* Bob without a picks list; Bob with a pick that names no team
EmptyPicksFiles ==
  {<<>>,
   <<StoredEntry(Ann, RosterPin, <<>>, 2)>>,
   <<PickEntry(Ann, <<PickRecord(0, OhioState)>>), [player |-> Bob]>>,
   <<PickEntry(BobPadded, <<PickRecord(0, "")>>)>>}

\* week 1 is played and ready to be calculated; week 2 has no games file and
\* no picks, or an empty games list or the games of week 1 and one of the
\* picks files above; a scores file for week 2 waits in uploads/
InitEmpty ==
  /\ teamNameMap = <<>>
  /\ upload \in [week : {2}, rows : {<<>>, PicksScores}]
  /\ spreadUpload = [week |-> 1, rows |-> <<>>]
  /\ \E second \in {[games |-> NoFile, picks |-> NoFile]}
                    \cup [games : {File(<<>>), File(StandGames)},
                          picks : {File(f) : f \in EmptyPicksFiles}] :
       /\ games = [w \in Weeks |-> IF w = 1 THEN File(StandGames) ELSE second.games]
       /\ picks = [w \in Weeks |-> IF w = 1 THEN File(FirstWeekPicks) ELSE second.picks]
  /\ scores = [w \in Weeks |-> IF w = 1 THEN File(PicksScores) ELSE NoFile]
  /\ detail = [w \in Weeks |->
                 IF w = 1 THEN File(calculateTotalWinners(StandGames, PicksScores).detail)
                 ELSE NoFile]
  /\ declared = [w \in Weeks |->
                   IF w = 1
                   THEN File(calculateTotalWinners(StandGames, PicksScores).declaredWinners)
                   ELSE NoFile]
  /\ winners = NoFiles
  /\ totals = <<>>
  /\ currentWeek = 2
  /\ roster = RosterFile
  /\ backup = NoBackup
  /\ submission = NoSubmission
  /\ res = NoResponse
  /\ log = <<>>
  /\ runs = 0
  /\ NormIdle
  /\ SiteIdle

NextEmpty ==
  \/ \E force \in BOOLEAN : UploadScores(force)
  \/ \E force \in BOOLEAN : UploadJsonScores(force)
  \/ \E week \in Weeks : CalculateRoute(week)

SpecEmpty == InitEmpty /\ [][NextEmpty]_vars

\* the request bodies behind the guard: Ann or Bob with one pick, week 1 or 2
\* named or no week
GuardBodies ==
  {[week |-> w, name |-> n, pin |-> RosterPin, picks |-> <<RawPick("0", OhioState)>>] :
     w \in {0} \cup Weeks, n \in {Ann, BobPadded}}

\* each week has the games of week 1 with their scores and declared winners
\* or no games file; current_week.json names a week whose spread was
\* uploaded, and is missing when none was; nobody has submitted picks
InitGuard ==
  /\ teamNameMap = <<>>
  /\ upload = [week |-> 1, rows |-> <<>>]
  /\ spreadUpload = [week |-> 1, rows |-> <<>>]
  /\ games \in [Weeks -> {NoFile, File(StandGames)}]
  /\ scores = [w \in Weeks |-> IF games[w].exists THEN File(PicksScores) ELSE NoFile]
  /\ detail = [w \in Weeks |->
                 IF games[w].exists
                 THEN File(calculateTotalWinners(StandGames, PicksScores).detail)
                 ELSE NoFile]
  /\ declared = [w \in Weeks |->
                   IF games[w].exists
                   THEN File(calculateTotalWinners(StandGames, PicksScores).declaredWinners)
                   ELSE NoFile]
  /\ picks = NoFiles
  /\ winners = NoFiles
  /\ totals = <<>>
  /\ currentWeek \in IF \E w \in Weeks : games[w].exists
                      THEN {w \in Weeks : games[w].exists}
                      ELSE {1}
  /\ roster = RosterFile
  /\ backup = NoBackup
  /\ submission = NoSubmission
  /\ res = NoResponse
  /\ log = <<>>
  /\ runs = 0
  /\ NormIdle
  /\ SiteIdle

NextGuard ==
  \/ \E week \in Weeks, body \in GuardBodies, closed \in BOOLEAN :
       SubmitPicks(week, body, closed)
  \/ \E body \in GuardBodies, closed \in BOOLEAN : ApiSubmitPicks(body, closed)

SpecGuard == InitGuard /\ [][NextGuard]_vars

\* app_settings.json with the picks hidden
HiddenSettings == File([picksVisibilityMode |-> "off"])

\* the submissions around a reset: Ann or Bob with one pick, no week named
ResetBodies == {b \in GuardBodies : b.week = 0}

\* week 1 is played and calculated for Ann and Bob; week 2 may have its
\* spread; the roster is uploaded, and there may be settings and a chat
InitReset ==
  /\ teamNameMap = <<>>
  /\ upload = [week |-> 1, rows |-> PicksScores]
  /\ spreadUpload \in [week : Weeks, rows : {StandGames}]
  /\ games \in {[w \in Weeks |-> IF w = 1 \/ second THEN File(StandGames) ELSE NoFile] :
                  second \in BOOLEAN}
  /\ scores = [w \in Weeks |-> IF w = 1 THEN File(PicksScores) ELSE NoFile]
  /\ detail = [w \in Weeks |->
                 IF w = 1 THEN File(calculateTotalWinners(StandGames, PicksScores).detail)
                 ELSE NoFile]
  /\ declared = [w \in Weeks |->
                   IF w = 1
                   THEN File(calculateTotalWinners(StandGames, PicksScores).declaredWinners)
                   ELSE NoFile]
  /\ picks = [w \in Weeks |-> IF w = 1 THEN File(FirstWeekPicks) ELSE NoFile]
  /\ LET first == calculateWinnersFromList(FirstWeekPicks, declared[1].body, <<>>)
     IN  /\ winners = [w \in Weeks |-> IF w = 1 THEN File(first.results) ELSE NoFile]
         /\ totals = first.totals
  /\ currentWeek \in {w \in Weeks : games[w].exists}
  /\ roster = RosterFile
  /\ backup = NoBackup
  /\ submission = NoSubmission
  /\ res = NoResponse
  /\ log = <<>>
  /\ runs = 1
  /\ NormIdle
  /\ settings \in {NoFile, HiddenSettings}
  /\ adminToken = ""
  /\ chat \in {NoFile, File(<<ChatMessage(Ann, 1)>>)}
  /\ posting = [p \in Posters |-> NotPosting]
  /\ served = NothingServed
  /\ kickoffs = <<>>
  /\ cutoff = NoCutoff

NextReset ==
  \/ ResetSystem
  \/ \E force \in BOOLEAN : UploadSpread(force)
  \/ \E force \in BOOLEAN : UploadScores(force)
  \/ \E week \in Weeks, body \in ResetBodies : SubmitPicks(week, body, FALSE)
  \/ \E week \in Weeks : CalculateRoute(week)

SpecReset == InitReset /\ [][NextReset]_vars

\* the date fields of a games file: one or two games, each on any day at one
\* of the hours, or with a date that does not parse
KickoffLists ==
  LET dates == {NoDate} \cup {GameDate(d, h) : d \in 0..MaxDay, h \in KickoffHours}
  IN  {<<a>> : a \in dates} \cup {<<a, b>> : a \in dates, b \in dates}

\* a games file with these dates is in the data directory, no cutoff asked
\* for yet
InitCutoff ==
  /\ EmptyData
  /\ NormIdle
  /\ settings = NoFile
  /\ adminToken = ""
  /\ chat = NoFile
  /\ posting = [p \in Posters |-> NotPosting]
  /\ served = NothingServed
  /\ kickoffs \in KickoffLists
  /\ cutoff = NoCutoff

NextCutoff == ComputeCutoff

SpecCutoff == InitCutoff /\ [][NextCutoff]_vars

\* what app_settings.json holds before the first request: nothing, a mode
\* under the key mode, or a text that names no mode
FirstSettings ==
  {NoFile, File([mode |-> ModeOff]),
   File([picksVisibilityMode |-> <<"p", "u", "b", "l", "i", "c">>])}

\* the modes a request names: on, off in capitals, auto, none, another word
RequestedModes == {ModeOn, <<"O", "F", "F">>, ModeAuto, <<>>, <<"a", "l", "l">>}

\* ADMIN_TOKEN when it is configured, and the keys requests carry
AdminKey == "secret"

RequestKeys == {"", AdminKey, "guess"}

\* week 1 has its games and the picks of Ann and Bob, week 2 has neither;
\* ADMIN_TOKEN is configured or not
InitSettings ==
  /\ teamNameMap = <<>>
  /\ upload = [week |-> 1, rows |-> <<>>]
  /\ games = [w \in Weeks |-> IF w = 1 THEN File(StandGames) ELSE NoFile]
  /\ scores = NoFiles
  /\ detail = NoFiles
  /\ declared = NoFiles
  /\ picks = [w \in Weeks |-> IF w = 1 THEN File(FirstWeekPicks) ELSE NoFile]
  /\ winners = NoFiles
  /\ totals = <<>>
  /\ Unused
  /\ res = NoResponse
  /\ log = <<>>
  /\ runs = 0
  /\ NormIdle
  /\ settings \in FirstSettings
  /\ adminToken \in {"", AdminKey}
  /\ chat = NoFile
  /\ posting = [p \in Posters |-> NotPosting]
  /\ served = NothingServed
  /\ kickoffs = <<>>
  /\ cutoff = NoCutoff

NextSettings ==
  \/ \E key \in RequestKeys, mode \in RequestedModes : SetPicksVisibility(key, mode)
  \/ \E week \in {0} \cup Weeks, closed \in BOOLEAN : GetDataPicks(week, closed)
  \/ \E week \in {0} \cup Weeks, closed \in BOOLEAN : GetApiPicks(week, closed)
  \/ \E week \in Weeks : DownloadPicks(week)

SpecSettings == InitSettings /\ [][NextSettings]_vars

\* the texts that can be posted
MaxChat == 2

\* who posts: Ann in capitals, Bob (who is not on the roster), nobody
ChatNames == {AnnUpper, BobPadded, ""}

\* what is posted: the texts, the first of them of the greatest length; an
\* empty text; a text one character too long
ChatTexts ==
  {ChatText(k, IF k = 1 THEN MaxMessageLength ELSE 12) : k \in 1..MaxChat}
    \cup {ChatText(0, 0), ChatText(0, MaxMessageLength + 1)}

\* chat.json after n earlier posts of Ann
OldChat(n) == [i \in 1..n |-> ChatMessage(Ann, 100 + i)]

\* the roster lists Ann and ADMIN_TOKEN is configured; chat.json is not there
\* yet, or holds as many messages as it keeps; no post is in flight
InitChat ==
  /\ teamNameMap = <<>>
  /\ upload = [week |-> 1, rows |-> <<>>]
  /\ games = NoFiles
  /\ scores = NoFiles
  /\ detail = NoFiles
  /\ declared = NoFiles
  /\ picks = NoFiles
  /\ winners = NoFiles
  /\ totals = <<>>
  /\ currentWeek = 1
  /\ roster = RosterFile
  /\ spreadUpload = [week |-> 1, rows |-> <<>>]
  /\ backup = NoBackup
  /\ submission = NoSubmission
  /\ res = NoResponse
  /\ log = <<>>
  /\ runs = 0
  /\ NormIdle
  /\ settings = NoFile
  /\ adminToken = AdminKey
  /\ chat \in {NoFile, File(OldChat(ChatLimit))}
  /\ posting = [p \in Posters |-> NotPosting]
  /\ served = NothingServed
  /\ kickoffs = <<>>
  /\ cutoff = NoCutoff

NextChat ==
  \/ \E p \in Posters, name \in ChatNames, text \in ChatTexts : PostChat(p, name, text)
  \/ \E p \in Posters : ChatRead(p)
  \/ \E p \in Posters : ChatWrite(p)
  \/ \E key \in {"", AdminKey} : ClearChat(key)

SpecChat == InitChat /\ [][NextChat]_vars

(***************************************************************************)
(* Properties                                                              *)
(***************************************************************************)
\* the last request was a scores upload that was saved
ScoresUploaded == res.status = 200 /\ res.route \in {"excel", "json"}

\* the unordered pair of normalized names of a record
NormalizedPair(r) == {Normalized(r.team1), Normalized(r.team2)}

\* the score record as the JSON upload reads it when translated is TRUE: its
\* names looked up in team_name_map.json
Translated(s, translated) ==
  IF translated /\ res.route = "json"
  THEN [s EXCEPT !.team1 = mapToMascot(s.team1, teamNameMap),
                 !.team2 = mapToMascot(s.team2, teamNameMap)]
  ELSE s

\* the positions of the uploaded rows whose pair of names is game g's
MatchingRows(g, translated) ==
  {k \in 1..Len(upload.rows) :
     NormalizedPair(Translated(upload.rows[k], translated)) = NormalizedPair(g)}

\* the positions of the records of a list whose pair of names is game g's
MatchingRecords(list, g) ==
  {k \in 1..Len(list) : NormalizedPair(list[k]) = NormalizedPair(g)}

Least(S) == CHOOSE k \in S : \A j \in S : k <= j

\* the list without its i-th element
Without(list, i) == SubSeq(list, 1, i - 1) \o SubSeq(list, i + 1, Len(list))

\* what the upload route of the last request persists for a spread and rows
Persisted(gamesList, rows) ==
  IF res.route = "excel"
  THEN OrderScores(gamesList, ParseScoreRows(rows)).ordered
  ELSE verifyNormalizeScores(gamesList, rows, teamNameMap).ordered

\* the games of the list with another spread2
WithSpread2(gamesList, x) ==
  [i \in 1..Len(gamesList) |-> [gamesList[i] EXCEPT !.spread2 = x]]

\* the games of week 1 that have a score record in scores_week_1.json
ScoredGames ==
  SelectSeq(games[1].body, LAMBDA g : MatchingRecords(scores[1].body, g) # {})

\* C1: for every game with a matching score record calculateTotalWinners
\* declares team1 when score1 + spread1 > score2, team2 when
\* score1 + spread1 < score2 and 'PUSH' when they are equal; a different
\* spread2 changes no declared winner
C1_WinnerBySpread1 ==
  detail[1].exists =>
    /\ Len(detail[1].body) = Len(ScoredGames)
    /\ \A n \in 1..Len(detail[1].body) :
         LET d == detail[1].body[n]
             g == ScoredGames[n]
         IN  /\ d.team1 = g.team1 /\ d.team2 = g.team2 /\ d.spread1 = g.spread1
             /\ \E k \in MatchingRecords(scores[1].body, g) :
                  d.score1 = scores[1].body[k].score1 /\ d.score2 = scores[1].body[k].score2
             /\ 2 * d.score1 + d.spread1 > 2 * d.score2 => d.winner = g.team1
             /\ 2 * d.score1 + d.spread1 < 2 * d.score2 => d.winner = g.team2
             /\ 2 * d.score1 + d.spread1 = 2 * d.score2 => d.winner = PUSH
    /\ \A x \in {-6, -1, 0, 6} :
         calculateTotalWinners(WithSpread2(games[1].body, x), scores[1].body).declaredWinners
           = declared[1].body

\* a push and a win of team1 in a game whose spread2 is not -spread1
C1_Witness ==
  /\ detail[1].exists
  /\ \E m, n \in 1..Len(detail[1].body) :
       /\ detail[1].body[m].winner = PUSH
       /\ detail[1].body[n].winner = detail[1].body[n].team1
       /\ detail[1].body[n].spread2 # -detail[1].body[n].spread1

\* the score that record s reports for the team called like team
ScoreReportedFor(s, team, score) ==
  \/ Normalized(s.team1) = Normalized(team) /\ score = s.score1
  \/ Normalized(s.team2) = Normalized(team) /\ score = s.score2

\* C2: for every game g with a matching score record s, the record the scores
\* upload persists carries g's team1 and team2 and has as score1 the score s
\* reports for g.team1's team and as score2 the score for g.team2's team, in
\* the JSON upload and in the Excel upload (the JSON upload reading the
\* score record's names through team_name_map.json)
C2_OrderedCarriesGameNames ==
  ScoresUploaded =>
    \A i \in 1..Len(games[1].body) :
      LET g == games[1].body[i]
      IN  MatchingRows(g, TRUE) # {} =>
            \E n \in 1..Len(scores[1].body), k \in MatchingRows(g, TRUE) :
              /\ scores[1].body[n].team1 = g.team1
              /\ scores[1].body[n].team2 = g.team2
              /\ ScoreReportedFor(Translated(upload.rows[k], TRUE), g.team1,
                                  scores[1].body[n].score1)
              /\ ScoreReportedFor(Translated(upload.rows[k], TRUE), g.team2,
                                  scores[1].body[n].score2)

\* the JSON upload alone does as C2 says
JsonOrderedCarriesGameNames ==
  res.route = "json" => C2_OrderedCarriesGameNames

\* the totals entry of every player of the picks file is runs times the
\* player's total in winners_week_1.json
TotalsAreRunsTimesWeek ==
  \A i \in 1..Len(picks[1].body) :
    LET name == TrimName(picks[1].body[i].player)
    IN  /\ name \in DOMAIN totals
        /\ totals[name] = runs * winners[1].body[i].total

\* C3: every run of calculateWinnersFromList for a week whose picks and
\* declared-winners files exist adds each player's week total to
\* totals[player]: k runs on the same inputs from empty totals leave
\* k * weekTotal(player); every saved scores upload and every call of the
\* calculate route with declared winners is such a run
C3_TotalsAdditive ==
  /\ runs = 0 => totals = <<>> /\ ~winners[1].exists
  /\ runs > 0 => winners[1].exists /\ TotalsAreRunsTimesWeek
  /\ (res.status = 200 /\ declared[1].exists) => runs > 0

\* the calculate route ran the second calculation and doubled a week total
C3_Witness ==
  /\ runs = 2
  /\ res.route = "calculate"
  /\ winners[1].body[1].total = 1
  /\ totals[Ann] = 2

\* the picks of an entry whose trimmed name is a declared winner
PicksInDeclared(entry) ==
  {j \in 1..Len(entry.picks) : TrimName(entry.picks[j].pick) \in Range(declared[1].body)}

\* C4: a pick is counted correct exactly when its trimmed team name is in the
\* week's declaredWinners, whatever its gameIndex; each player's result is
\* {player, correct, total} with total the number of such picks
C4_CorrectByMembership ==
  winners[1].exists =>
    /\ Len(winners[1].body) = Len(picks[1].body)
    /\ \A i \in 1..Len(winners[1].body) :
         LET r == winners[1].body[i]
             e == picks[1].body[i]
         IN  /\ DOMAIN r = {"player", "correct", "total"}
             /\ r.player = e.player
             /\ r.total = Cardinality(PicksInDeclared(e))
             /\ Len(r.correct) = r.total
             /\ Range(r.correct) = {TrimName(e.picks[j].pick) : j \in PicksInDeclared(e)}

\* a padded pick of Michigan for game 1 counted although declaredWinners[1]
\* is not Michigan
C4_Witness ==
  /\ winners[1].exists
  /\ declared[1].body = <<OhioState, Michigan>>
  /\ picks[1].body[1].picks = <<PickRecord(0, Michigan), PickRecord(1, MichiganPadded)>>
  /\ winners[1].body[1].correct = <<Michigan, Michigan>>
  /\ winners[1].body[1].total = 2

\* the detail records that are no push
NonPushDetail == SelectSeq(detail[1].body, LAMBDA d : d.winner # PUSH)

\* C5: declaredWinners is the sequence, in game order, of the winner fields of
\* the detail records whose winner is not 'PUSH'; a push contributes no
\* name, so its length is the number of matched games that are no push
C5_DeclaredAreNonPushWinners ==
  declared[1].exists =>
    /\ detail[1].exists
    /\ declared[1].body = [n \in 1..Len(NonPushDetail) |-> NonPushDetail[n].winner]
    /\ Len(declared[1].body)
         = Cardinality({n \in 1..Len(detail[1].body) : detail[1].body[n].winner # PUSH})
    /\ PUSH \notin Range(declared[1].body)

\* two games, the first a push: only the second one's winner is declared
C5_Witness ==
  /\ declared[1].exists
  /\ Len(detail[1].body) = 2
  /\ detail[1].body[1].winner = PUSH
  /\ detail[1].body[2].winner # PUSH
  /\ declared[1].body = <<detail[1].body[2].winner>>

\* game g is reported as unmatched by the upload of the last request
ReportedUnmatched(g) ==
  IF res.route = "json"
  THEN <<g.team1, g.team2>> \in Range(res.report.unmatchedGames)
  ELSE [line |-> "Score not found", team1 |-> g.team1, team2 |-> g.team2] \in Range(log)

\* an upload leaves out the i-th game, whose teams no row names, and treats
\* the other games as if it were not listed
UploadSkips(i) ==
  LET g == games[1].body[i]
  IN  /\ ReportedUnmatched(g)
      /\ MatchingRecords(scores[1].body, g) = {}
      /\ scores[1].body = Persisted(Without(games[1].body, i), upload.rows)

\* calculateTotalWinners leaves out the i-th game, for which the scores file
\* has no record, and treats the other games as if it were not listed
CalculationSkips(i) ==
  LET g    == games[1].body[i]
      rest == calculateTotalWinners(Without(games[1].body, i), scores[1].body)
  IN  /\ [line |-> "Could not match score", team1 |-> g.team1, team2 |-> g.team2]
           \in Range(log)
      /\ \A n \in 1..Len(detail[1].body) :
           ~(detail[1].body[n].team1 = g.team1 /\ detail[1].body[n].team2 = g.team2)
      /\ detail[1].body = rest.detail
      /\ declared[1].body = rest.declaredWinners

UnmatchedGamesSkipped(translated) ==
  /\ ScoresUploaded =>
       \A i \in 1..Len(games[1].body) :
         MatchingRows(games[1].body[i], translated) = {} => UploadSkips(i)
  /\ (res.status = 200 /\ scores[1].exists) =>
       \A i \in 1..Len(games[1].body) :
         MatchingRecords(scores[1].body, games[1].body[i]) = {} => CalculationSkips(i)

Exchanged(s) ==
  [team1 |-> s.team2, score1 |-> s.score2, team2 |-> s.team1, score2 |-> s.score1]

\* the upload of the last request persists the same for the rows with any one
\* of them exchanged
SameWhenExchanged ==
  \A k \in 1..Len(upload.rows) :
    Persisted(games[1].body, [upload.rows EXCEPT ![k] = Exchanged(@)]) = scores[1].body

\* C7: for any spread and any two score lists that differ only in one record
\* having its two sides exchanged, the matcher gives the same ordered
\* results
C7_OrderInsensitive == ScoresUploaded => SameWhenExchanged

\* no game of the week pairs two names with the same normalized name
TeamsDiffer ==
  \A i \in 1..Len(games[1].body) :
    Normalized(games[1].body[i].team1) # Normalized(games[1].body[i].team2)

\* C7 as the code does it: order-insensitive for a spread whose games each
\* pair two teams with different normalized names
C7_OrderInsensitiveDistinctTeams == (ScoresUploaded /\ TeamsDiffer) => SameWhenExchanged

\* a row listing the teams in the opposite order to the spread's was
\* re-oriented by the JSON upload
C7_Witness ==
  /\ ScoresUploaded
  /\ res.route = "json"
  /\ TeamsDiffer
  /\ res.report.swapped = 1
  /\ \E k \in 1..Len(upload.rows), n \in 1..Len(scores[1].body) :
       /\ upload.rows[k].team1 = scores[1].body[n].team2
       /\ upload.rows[k].score1 = scores[1].body[n].score2
       /\ upload.rows[k].score2 = scores[1].body[n].score1

\* the record the upload route of the last request makes of row s for game g
Oriented(s, g) ==
  IF res.route = "excel"
  THEN ExcelOrdered(s, ExcelNeedsSwap(s, g))
  ELSE VerifyOrdered(s, g, VerifyNeedsSwap(s, g, teamNameMap))

FirstMatchUsed(translated) ==
  /\ ScoresUploaded =>
       \A i \in 1..Len(games[1].body) :
         LET g == games[1].body[i]
             m == MatchingRows(g, translated)
         IN  Cardinality(m) >= 2 =>
               /\ Oriented(upload.rows[Least(m)], g) \in Range(scores[1].body)
               /\ \A k \in m \ {Least(m)} :
                    Oriented(upload.rows[k], g) \notin Range(scores[1].body)
  /\ detail[1].exists =>
       \A i \in 1..Len(games[1].body) :
         LET g == games[1].body[i]
             m == MatchingRecords(scores[1].body, g)
         IN  Cardinality(m) >= 2 =>
               \E n \in 1..Len(detail[1].body) :
                 /\ detail[1].body[n].team1 = g.team1
                 /\ detail[1].body[n].team2 = g.team2
                 /\ detail[1].body[n].score1 = scores[1].body[Least(m)].score1
                 /\ detail[1].body[n].score2 = scores[1].body[Least(m)].score2

JsonUploaded == ScoresUploaded /\ res.route = "json"

\* the games of week 1 that the JSON upload pairs with the k-th uploaded row:
\* those whose first matching row it is
GamesPairedWith(k) ==
  {i \in 1..Len(games[1].body) :
     /\ MatchingRows(games[1].body[i], TRUE) # {}
     /\ Least(MatchingRows(games[1].body[i], TRUE)) = k}

\* the positions, in input order, of the uploaded rows paired with no game
UnpairedRows ==
  SelectSeq([k \in 1..Len(upload.rows) |-> k], LAMBDA k : GamesPairedWith(k) = {})

\* C11: after verifyNormalizeScores the report's dropped list holds exactly
\* the incoming score records paired with no game, each once, and
\* report.matched plus the number of unmatchedGames is the number of games
C11_DroppedAreUnpaired ==
  JsonUploaded =>
    /\ res.report.dropped =
         [j \in 1..Len(UnpairedRows) |->
            <<upload.rows[UnpairedRows[j]].team1, upload.rows[UnpairedRows[j]].team2>>]
    /\ res.report.matched + Len(res.report.unmatchedGames) = Len(games[1].body)

\* of two games and two rows one game was matched, one row dropped
C11_Witness ==
  /\ JsonUploaded
  /\ Len(games[1].body) = 2
  /\ Len(upload.rows) = 2
  /\ res.report.matched = 1
  /\ Len(res.report.unmatchedGames) = 1
  /\ Len(res.report.dropped) = 1

\* C12: a matched score record is consumed: no incoming score record is
\* paired with more than one game, so verifyNormalizeScores gives no more
\* ordered results than there are incoming score records, also for a spread
\* with two games of the same normalized team pair
C12_ScoreRecordConsumed ==
  JsonUploaded =>
    /\ \A k \in 1..Len(upload.rows) : Cardinality(GamesPairedWith(k)) <= 1
    /\ Len(scores[1].body) <= Len(upload.rows)


\* what calculateTotalWinners computes from the week's games and scores files
\* as they are now
DeclaredNow(week) == calculateTotalWinners(games[week].body, scores[week].body)

\* the last request ran calculateTotalWinners(week) to its end
WinnersDeclaredBy(response, week) ==
  /\ response.route \in {"excel", "json", "calculate"}
  /\ response.status = 200
  /\ response.week = week
  /\ games[week].exists
  /\ scores[week].exists

\* C13: the winner declaration is referentially transparent: every request
\* that runs calculateTotalWinners for a week leaves the detail and the
\* declared winners that the week's games and scores files determine, whatever
\* was calculated before, whatever totals.json holds and whatever the other
\* week's files are
C13_ReferentiallyTransparent ==
  [][\A week \in Weeks :
       WinnersDeclaredBy(res, week)' =>
          /\ detail'[week] = File(DeclaredNow(week).detail)'
          /\ declared'[week] = File(DeclaredNow(week).declaredWinners)']_vars

\* week 1's scores were uploaded again over the earlier ones, after totals.json
\* was filled and while week 2 has its own spread
C13_Witness ==
  /\ WinnersDeclaredBy(res, 1)
  /\ res.route = "json"
  /\ backup.prior.exists
  /\ backup.prior.body # scores[1].body
  /\ declared[1].body # <<>>
  /\ totals # <<>>
  /\ runs = 2
  /\ games[2].exists

\* the response answers a scores upload, Excel sheet or JSON
ScoresUpload(response) == response.route \in {"excel", "json"}

\* C14: the files of a week appear in the order spread, scores and declared
\* winners: scores_week_N.json exists only if games_week_N.json does, and
\* declaredwinners_week_N.json only if scores_week_N.json does; a scores
\* upload (Excel or JSON) for a week without a games file is answered 400 and
\* writes no scores, declared winners, detail, results or totals
C14_WeekOrder ==
  /\ [](\A week \in Weeks :
          /\ scores[week].exists => games[week].exists
          /\ declared[week].exists => scores[week].exists)
  /\ [][(ScoresUpload(res') /\ ~games[res'.week].exists) =>
          /\ res'.status = 400
          /\ UNCHANGED <<scores, declared, detail, winners, totals>>]_vars

\* a JSON scores upload for week 2, which has no spread, was answered 400
\* after its raw copy was kept; week 1 has its spread and its picks
C14_Witness ==
  /\ res.route = "json"
  /\ res.week = 2
  /\ res.status = 400
  /\ backup.raw.exists
  /\ ~games[2].exists
  /\ ~scores[2].exists
  /\ ~declared[2].exists
  /\ games[1].exists
  /\ picks[1].exists

\* the data files other than the uploads
DataFiles ==
  <<games, scores, detail, declared, picks, winners, totals, currentWeek, teamNameMap,
    roster>>

\* an upload onto the existing file target, which becomes targetAfter: refused
\* with everything as it was, or, forced, answered 200 with the copy of
\* target in backups/ and a file in its place
RefusedOrBackedUp(force, target, targetAfter) ==
  IF force
  THEN /\ res'.status = 200
       /\ backup'.prior = target
       /\ targetAfter.exists
  ELSE /\ res'.status = 409
       /\ UNCHANGED DataFiles

\* C15: a spread file and a scores file change only by a forced upload: an
\* upload without force onto an existing target is answered 409 and leaves
\* the target and every other data file unchanged; an upload with force
\* stores a backup equal to the prior content and replaces the target
C15_ImmutableUnlessForced ==
  [][\A force \in BOOLEAN :
       /\ ((UploadSpread(force) \/ UploadJsonGames(force))
             /\ games[spreadUpload.week].exists) =>
              RefusedOrBackedUp(force, games[spreadUpload.week],
                                games'[spreadUpload.week])
       /\ ((UploadScores(force) \/ UploadJsonScores(force))
             /\ scores[upload.week].exists) =>
              RefusedOrBackedUp(force, scores[upload.week],
                                scores'[upload.week])]_vars

\* a forced spread upload replaced the week's games by other games and kept
\* the copy, while the week had its scores and declared winners
C15_Witness ==
  /\ res.route = "spread"
  /\ res.status = 200
  /\ backup.prior.exists
  /\ backup.prior.body # games[res.week].body
  /\ scores[res.week].exists
  /\ declared[res.week].exists

\* the names of the entries of a picks file, trimmed and lower-cased
FoldedPlayers(data) == [i \in 1..Len(data) |-> Folded(data[i].player)]

NoTwoEqual(seq) == \A i, j \in 1..Len(seq) : seq[i] = seq[j] => i = j

\* no picks file holds two entries of one player
OnePickEntryPerPlayer ==
  \A week \in Weeks : NoTwoEqual(FoldedPlayers(picks[week].body))

\* the request answered last is a submission of a player who has an entry in
\* the picks file of the week it is for
SecondSubmission(week) ==
  /\ submission'.route \in {"submit", "api-submit"}
  /\ week = (IF submission'.route = "submit" THEN submission'.param
             ELSE IF submission'.week > 0 THEN submission'.week ELSE currentWeek)
  /\ Folded(submission'.name) \in Range(FoldedPlayers(picks[week].body))

\* a pick of a request that has a JSON number as gameIndex and names a team
ValidRawPick(p) ==
  /\ Has(p, "gameIndex")
  /\ p.gameIndex \in {"0", "1"}
  /\ Has(p, "pick")
  /\ TrimName(p.pick) # ""

\* the request names a player and a pin and carries at most ten picks, one
\* of them valid
WellFormed(request) ==
  /\ TrimName(request.name) # ""
  /\ request.pin # ""
  /\ Len(request.picks) <= MaxPicksAllowed
  /\ \E i \in 1..Len(request.picks) : ValidRawPick(request.picks[i])

\* C16 as stated: no picks file ever holds two entries whose player names
\* are equal after trimming and ignoring letter case, and every second
\* submission of a player for a week is answered 409 and leaves the picks
\* file unchanged
C16_SecondSubmissionRefused409 ==
  /\ []OnePickEntryPerPlayer
  /\ [][\A week \in Weeks :
          SecondSubmission(week) => (res'.status = 409 /\ picks' = picks)]_vars

\* C16, amended: no picks file ever holds two entries whose player names are
\* equal after trimming and ignoring letter case; every second submission of
\* a player for a week leaves the picks file unchanged, and it is answered
\* 409 when it is well-formed and the cutoff guard let it pass (the guard
\* answers 403, the validation 400, both before the duplicate test)
C16_SecondSubmissionNeverStored ==
  /\ []OnePickEntryPerPlayer
  /\ [][\A week \in Weeks :
          SecondSubmission(week) =>
             /\ picks' = picks
             /\ res'.status \in {400, 403, 409}
             /\ (res'.status # 403 /\ WellFormed(submission')) => res'.status = 409]_vars

\* Ann has her entry, Bob has his, and ANN's submission through the alias
\* route was answered 409
C16_Witness ==
  /\ res.route = "api-submit"
  /\ res.status = 409
  /\ submission.name = AnnUpper
  /\ Len(picks[1].body) = 2
  /\ picks[1].body[1].player = Ann
  /\ picks[1].body[2].player = Bob

\* the valid picks of a request as they are to be stored: the JSON number
\* and the trimmed team name
ValidPicksOf(picksIn) ==
  LET valid == SelectSeq(picksIn, ValidRawPick)
  IN  [i \in 1..Len(valid) |->
         PickRecord(FiniteNumber[valid[i].gameIndex], TrimName(valid[i].pick))]

\* the entry a submission appended to the picks file of its week
LastEntry(file) == file.body[Len(file.body)]

\* C19: a pick whose gameIndex is not a finite number or whose team is empty
\* after trimming is never stored, and it does not make the submission fail:
\* the entry a submission stores holds exactly its valid picks, and a
\* submission with a name and a pin is answered 400 only if it has no valid
\* pick or more than ten of them
C19_InvalidPicksDropped ==
  [][submission'.route \in {"submit", "api-submit"} =>
       /\ picks' # picks =>
             LastEntry(picks'[res'.week]).picks = ValidPicksOf(submission'.picks)
       /\ (res'.status = 400 /\ TrimName(submission'.name) # "" /\ submission'.pin # "") =>
             Len(ValidPicksOf(submission'.picks)) \notin 1..MaxPicksAllowed]_vars

\* C20: a pick entry is stored for a player only with a name and a pin for
\* which /api/authenticate answers ok: every entry of every picks file
\* carries a name and a pin that roster.json lists together
C20_StoredOnlyIfAuthenticated ==
  \A week \in Weeks : \A i \in 1..Len(picks[week].body) :
     AuthStatus(picks[week].body[i].player, picks[week].body[i].pin) = 200

\* the running total of a player, 0 for a player totals.json does not list
TotalOf(standings, name) == IF name \in DOMAIN standings THEN standings[name] ELSE 0

\* the entry names no team in any pick: it has no picks list, an empty one,
\* or picks with an empty team only
NoValidPick(entry) ==
  \/ ~Has(entry, "picks")
  \/ \A i \in 1..Len(entry.picks) : TrimName(entry.picks[i].pick) = ""

\* the week has no games: no games file, or an empty list
NoGames(week) == ~games[week].exists \/ games[week].body = <<>>

\* C17: a calculation for a week with no games, with an empty picks list, or
\* with a player who has no picks or no valid picks completes: the request
\* is answered 200, every entry of the picks file gets a result, the result
\* of every affected player has total 0 and an empty correct list, and that
\* player's running total keeps its value; without a games file nothing is
\* written at all
C17_DegradesToZero ==
  [][\A week \in Weeks :
       (res'.route \in {"excel", "json", "calculate"} /\ res'.week = week
          /\ res'.status # 400 /\ res'.status # 409) =>
          /\ res'.status = 200
          /\ ~games[week].exists => UNCHANGED <<winners, totals, detail, declared>>
          /\ runs' # runs =>
                /\ Len(winners'[week].body) = Len(picks[week].body)
                /\ \A i \in 1..Len(picks[week].body) :
                      (NoGames(week) \/ NoValidPick(picks[week].body[i])) =>
                         /\ winners'[week].body[i].total = 0
                         /\ winners'[week].body[i].correct = <<>>
                         /\ TotalOf(totals', TrimName(picks[week].body[i].player))
                              = TotalOf(totals, TrimName(picks[week].body[i].player))]_vars

\* week 1 gave Bob a point; week 2, calculated after it, has its games and
\* its results, and Bob's pick there names no team: his result is 0 and his
\* total is still 1
C17_Witness ==
  /\ res.status = 200
  /\ res.week = 2
  /\ runs = 2
  /\ games[2].body # <<>>
  /\ declared[2].exists
  /\ declared[2].body # <<>>
  /\ picks[2].body = <<PickEntry(BobPadded, <<PickRecord(0, "")>>)>>
  /\ winners[2].body = <<[player |-> BobPadded, correct |-> <<>>, total |-> 0]>>
  /\ totals[Bob] = 1

\* the detail record carries the three numbers its winner was decided on
NumbersRecorded(record) ==
  Has(record, "score1") /\ Has(record, "score2") /\ Has(record, "spread1")

\* C18: a matched game whose score record lacks score1 or score2, or whose
\* spread record lacks spread1, is rejected or flagged: no record of a
\* winners detail file, winner or PUSH, was decided without its two scores
\* and its spread1
C18_MissingNumbersRejected ==
  \A week \in Weeks : \A i \in 1..Len(detail[week].body) :
     NumbersRecorded(detail[week].body[i])

\* C21: no entry is appended to picks_week_W while isLockedNow(W) holds for
\* that week W; in particular never when week W has no games, so that no
\* cutoff can be computed for it, whichever of the two routes is used and
\* whatever the current week is
C21_NoEntryWhileLocked ==
  [][\A w \in Weeks : picks'[w] # picks[w] => ~NoGames(w)]_vars

\* what /submit-picks/:week answers to a request for a week that the cutoff
\* guard lets pass
ParamRouteStatus(week, request) ==
  IF TrimName(request.name) = "" \/ request.pin = "" THEN 400
  ELSE IF Len(NormalizePicks(request.picks)) = 0 THEN 400
  ELSE IF Len(NormalizePicks(request.picks)) > MaxPicksAllowed THEN 400
  ELSE IF AlreadySubmitted(picks[week].body, TrimName(request.name)) THEN 409
  ELSE 200

\* C24: a request that passes the cutoff guard is answered by
\* /api/submit-picks as /submit-picks/:week answers it for the same week, and
\* the picks file is left in the same state: picks that are all invalid are
\* answered 400 and store no entry, and the limit of 10 picks applies to the
\* validated list
C24_AliasEquivalent ==
  [][(submission'.route = "api-submit" /\ res'.status # 403)
       => /\ res'.status = ParamRouteStatus(res'.week, submission')
          /\ res'.status # 200 => picks' = picks
          /\ res'.status = 200 =>
               LastEntry(picks'[res'.week]).picks = NormalizePicks(submission'.picks)]_vars

\* C26: every stored entry holds at most 10 picks, and no player's total of
\* a week exceeds the number of that week's games with a declared winner,
\* also when picks repeat a team name or a gameIndex
C26_TotalAtMostDeclared ==
  \A w \in Weeks :
    /\ \A i \in 1..Len(picks[w].body) :
         Has(picks[w].body[i], "picks") => Len(picks[w].body[i].picks) <= MaxPicksAllowed
    /\ (winners[w].exists /\ declared[w].exists) =>
         \A i \in 1..Len(winners[w].body) :
           winners[w].body[i].total <= Len(declared[w].body)

\* the score record s gives the detail record d its numbers with each score
\* under the team that scored it
ScoresUnderTheirTeams(s, d) ==
  /\ Has(s, "score1") /\ Has(s, "score2")
  /\ ScoreReportedFor(s, d.team1, d.score1)
  /\ ScoreReportedFor(s, d.team2, d.score2)

\* C25: calculateTotalWinners adds spread1 to the score of the team named
\* game.team1 and compares the sum with the score of game.team2's team: every
\* detail record it writes has as score1 the score the week's scores file
\* reports for its team1 and as score2 the score reported for its team2, also
\* after a forced re-upload of the spread that lists the two teams in the
\* other order
C25_Spread1OnTeam1Score ==
  \A w \in Weeks :
    (res.route = "calculate" /\ res.week = w /\ detail[w].exists /\ scores[w].exists) =>
      \A i \in 1..Len(detail[w].body) :
        LET d == detail[w].body[i]
        IN  (Has(d, "score1") /\ Has(d, "score2")) =>
              \E k \in 1..Len(scores[w].body) : ScoresUnderTheirTeams(scores[w].body[k], d)

\* no games, scores, picks, winners, winners_detail or declaredwinners file
\* of any week
NoWeekFile(g, s, p, w, d, dw) ==
  \A week \in Weeks :
    ~g[week].exists /\ ~s[week].exists /\ ~p[week].exists
    /\ ~w[week].exists /\ ~d[week].exists /\ ~dw[week].exists

\* the totals a calculation that changes winners_week_N leaves
TotalsFromZero(results, standings) ==
  \A i \in 1..Len(results) :
    TotalOf(standings, TrimName(results[i].player)) = results[i].total

\* C29: a successful POST /api/reset-system leaves no week file, empty totals
\* and current week 1, and leaves the roster, the chat, the settings, the
\* team name map and the backups as they were; the calculation that follows
\* it on empty totals gives every player the total of that week alone
C29_ResetFrame ==
  /\ [][(res'.route = "reset" /\ res'.status = 200) =>
          /\ NoWeekFile(games', scores', picks', winners', detail', declared')
          /\ totals' = <<>>
          /\ currentWeek' = 1
          /\ roster' = roster /\ chat' = chat /\ settings' = settings
          /\ teamNameMap' = teamNameMap
          /\ backup' = NoBackup]_vars
  /\ [][\A w \in Weeks :
          (totals = <<>> /\ res'.route = "calculate" /\ winners'[w].exists
             /\ ~winners[w].exists)
            => TotalsFromZero(winners'[w].body, totals')]_vars

\* after a reset Ann alone has submitted again and her week is calculated:
\* Bob's total is gone, hers is that of the week, and the roster, the chat
\* and the settings are still there
C29_Witness ==
  /\ res.route = "calculate"
  /\ winners[1].exists
  /\ DOMAIN totals = {Ann}
  /\ totals[Ann] = winners[1].body[1].total
  /\ totals[Ann] > 0
  /\ roster = RosterFile
  /\ chat.exists
  /\ settings = HiddenSettings

\* cutoff is later than the kickoff dt
CutoffAfter(dt) ==
  cutoff.day > dt.day \/ (cutoff.day = dt.day /\ cutoff.hour > dt.hour)

\* C30: the cutoff of a week whose games have parseable dates is 13:00 on a
\* Thursday and is never later than the kickoff of the week's earliest game,
\* on whichever weekday and at whichever hour that game is played
C30_CutoffNotAfterKickoff ==
  cutoff.known =>
    /\ cutoff.hour = CutoffHour
    /\ getDay(cutoff.day) = 4
    /\ \A i \in 1..Len(kickoffs) : kickoffs[i].parsed => ~CutoffAfter(kickoffs[i])

\* C22: while the picks of week W are not to be revealed, no route answers
\* with the contents of picks_week_W.json: with the mode off no request is
\* answered with the picks file of any week, neither by /data, nor by
\* /api/picks_week_W.json, nor by /api/download
C22_HiddenPicksNotServed ==
  [][(getPicksVisibilityMode = ModeOff /\ res'.route \in {"data", "api-picks", "download"})
       => served'.kind # "picks"]_vars

\* the request names no mode, or comes without the admin key although
\* ADMIN_TOKEN is configured
BadVisibilityRequest(key, mode) ==
  \/ toLowerCase(mode) \notin {ModeOn, ModeOff, ModeAuto}
  \/ adminToken # "" /\ key # adminToken

\* C23: the picks-visibility mode is always on, off or auto, a missing or
\* unrecognised stored value reading as auto; the picks are revealed with
\* on, hidden with off and revealed with auto exactly when isLockedNow(week);
\* a POST /api/picks-visibility that names another mode, or lacks the admin
\* key when ADMIN_TOKEN is configured, is answered 400 or 403 and leaves the
\* stored settings unchanged
C23_VisibilityModes ==
  /\ [](/\ getPicksVisibilityMode \in {ModeOn, ModeOff, ModeAuto}
        /\ StoredMode(readSettings) \notin {ModeOn, ModeOff, ModeAuto}
             => getPicksVisibilityMode = ModeAuto)
  /\ [][\A week \in Weeks, closed \in BOOLEAN :
          GetApiPicks(week, closed) =>
            (res'.status # 403) =
              CASE getPicksVisibilityMode = ModeOn -> TRUE
                [] getPicksVisibilityMode = ModeOff -> FALSE
                [] getPicksVisibilityMode = ModeAuto -> Locked(week, closed)]_vars
  /\ [][\A key \in RequestKeys, mode \in RequestedModes :
          (SetPicksVisibility(key, mode) /\ BadVisibilityRequest(key, mode))
            => res'.status \in {400, 403} /\ settings' = settings]_vars

\* the mode was set to on, and then a request without the admin key was
\* refused: the settings still say on
C23_Witness ==
  /\ res.route = "visibility"
  /\ res.status = 403
  /\ adminToken = AdminKey
  /\ settings.exists
  /\ Has(settings.body, "picksVisibilityMode")
  /\ settings.body.picksVisibilityMode = ModeOn

\* C27: a message whose post was answered success stays in chat.json until
\* 50 newer messages are stored: the write of a post removes no message of
\* chat.json except those that 50 newer messages follow, also when the reads
\* and writes of two posts interleave
C27_NoAcceptedMessageLost ==
  [][(res'.route = "chat" /\ res'.status = 200 /\ chat' # chat) =>
       \A i \in 1..Len(chat.body) :
         \/ \E j \in 1..Len(chat'.body) : chat'.body[j] = chat.body[i]
         \/ Len(chat.body) - i + 1 >= ChatLimit]_vars

\* the post names nobody or says nothing, is too long, or comes from a name
\* that is not on the roster after trimming and ignoring letter case
BadPost(name, text) ==
  \/ TrimName(name) = ""
  \/ text.length = 0
  \/ text.length > MaxMessageLength
  \/ \A i \in 1..Len(roster.body) : Folded(roster.body[i].name) # Folded(name)

=============================================================================
